---- MODULE Spec2Model ----
(***************************************************************************)
(* Motion orchestration engine of robot_andrea1: the action planner        *)
(* (actionPlanner.ts), the action executor (actionExecutor.ts), the motion *)
(* library (motion.ts) and the command loop of PhysicalAIMVP.tsx.          *)
(*                                                                         *)
(* Units.  Time is in milliseconds.  Normalised progress and eased         *)
(* progress are in permille (1000 = 1.0).  Angles are in hundredths of a   *)
(* degree, lengths in thousandths of a scene unit.  Optional fields of the *)
(* TypeScript records are sequences of length 0 (absent) or 1 (present).   *)
(***************************************************************************)
EXTENDS Integers, Sequences, FiniteSets, TLC

VARIABLES robots, objects, execs, activeIntervals, timers, cmd, hist, call

vars == <<robots, objects, execs, activeIntervals, timers, cmd, hist, call>>

\* ------------------------------------------------------------------ bounds
\* Largest number of executeActionPlan invocations in one behaviour.
MaxExecs == 2
\* Largest number of commands submitted through the chat panel.
MaxCommands == 2

\* ------------------------------------------------------------ small helpers
None == <<>>
Some(x) == <<x>>
IsSome(o) == Len(o) > 0
Get(o) == o[1]
OrElse(o, d) == IF Len(o) > 0 THEN o[1] ELSE d

NULL == "null"

Min(a, b) == IF a < b THEN a ELSE b
Max(a, b) == IF a > b THEN a ELSE b
Abs(a) == IF a < 0 THEN -a ELSE a

\* Integer division rounding toward zero, as the nearest stand-in for the
\* floating point quotient on negative numerators.
Quot(a, b) == IF a >= 0 THEN a \div b ELSE -((-a) \div b)

Unit == 10 * 100

\* ------------------------------------------------------------------ motion.ts
easeInOut(t) ==
    IF t < 500 THEN Quot(2 * t * t, Unit)
    ELSE -Unit + Quot((4 * Unit - 2 * t) * t, Unit)

easeOut(t) == Quot(t * (2 * Unit - t), Unit)

\* 1 + c3 (t-1)^3 + c1 (t-1)^2 with c1 = 1.70158, c3 = c1 + 1
easeOutBack(t) ==
    LET u  == t - Unit
        u2 == Quot(u * u, Unit)
        u3 == Quot(u2 * u, Unit)
    IN  Unit + Quot(2702 * u3, Unit) + Quot(1702 * u2, Unit)

lerp(a, b, t) == a + Quot((b - a) * t, Unit)

lerpVec3(a, b, t) ==
    [x |-> lerp(a.x, b.x, t), y |-> lerp(a.y, b.y, t), z |-> lerp(a.z, b.z, t)]

NeutralTorso == [pitch |-> 0, roll |-> 0]

lerpArm(a, b, t) ==
    [shoulder |-> [pitch |-> lerp(a.shoulder.pitch, b.shoulder.pitch, t),
                   roll  |-> Some(lerp(OrElse(a.shoulder.roll, 0), OrElse(b.shoulder.roll, 0), t))],
     elbow    |-> [flex |-> lerp(a.elbow.flex, b.elbow.flex, t)]]

lerpLeg(a, b, t) ==
    [hip  |-> [pitch |-> lerp(a.hip.pitch, b.hip.pitch, t),
               roll  |-> Some(lerp(OrElse(a.hip.roll, 0), OrElse(b.hip.roll, 0), t))],
     knee |-> [flex |-> lerp(a.knee.flex, b.knee.flex, t)]]

lerpTorso(a, b, t) ==
    [pitch |-> lerp(a.pitch, b.pitch, t), roll |-> lerp(a.roll, b.roll, t)]

lerpPose(a, b, t) ==
    [torso    |-> IF IsSome(a.torso) \/ IsSome(b.torso)
                  THEN Some(lerpTorso(OrElse(a.torso, NeutralTorso),
                                      OrElse(b.torso, NeutralTorso), t))
                  ELSE None,
     leftArm  |-> lerpArm(a.leftArm, b.leftArm, t),
     rightArm |-> lerpArm(a.rightArm, b.rightArm, t),
     leftLeg  |-> lerpLeg(a.leftLeg, b.leftLeg, t),
     rightLeg |-> lerpLeg(a.rightLeg, b.rightLeg, t)]

\* Math.sin of an angle given in whole degrees, in permille (Bhaskara's
\* rational approximation, exact at 0, 30, 90, 150 and 180 degrees).
SinDeg(d) ==
    LET m == d % 360
        h == IF m <= 180 THEN m ELSE m - 180
        p == h * (180 - h)
        s == Quot(4 * p * Unit, 40500 - p)
    IN  IF m <= 180 THEN s ELSE -s

Arm(p, r, f) == [shoulder |-> [pitch |-> p, roll |-> Some(r)], elbow |-> [flex |-> f]]
Leg(p, r, f) == [hip |-> [pitch |-> p, roll |-> Some(r)], knee |-> [flex |-> f]]
Torso(p, r) == Some([pitch |-> p, roll |-> r])

idle ==
    [torso |-> Torso(0, 0),
     leftArm |-> Arm(0, 0, 0), rightArm |-> Arm(0, 0, 0),
     leftLeg |-> Leg(0, 0, 0), rightLeg |-> Leg(0, 0, 0)]

\* phase is given in degrees of the stride circle (phase * 360).
walkCycle(phaseDeg) ==
    LET s            == SinDeg(phaseDeg)
        so           == SinDeg(phaseDeg + 180)
        legSwing     == Quot(s * 3500, Unit)
        legLift      == Quot(Max(0, s) * 4500, Unit)
        oppositeLegSwing == Quot(so * 3500, Unit)
        oppositeLegLift  == Quot(Max(0, so) * 4500, Unit)
        bodyRoll     == Quot(s * 300, Unit)
        breathingVariation == Quot(SinDeg(2 * phaseDeg) * 50, Unit)
        bodyPitch    == 500 + breathingVariation
        leftArmSwing == -Quot(legSwing * 5, 10)
        rightArmSwing == Quot(legSwing * 5, 10)
        leftArmRoll  == Quot(s * 200, Unit)
        rightArmRoll == -Quot(s * 200, Unit)
        leftElbowFlex  == 1500 + Quot(Max(0, leftArmSwing) * 3, 10)
        rightElbowFlex == 1500 + Quot(Max(0, rightArmSwing) * 3, 10)
    IN  [torso |-> Torso(bodyPitch, -bodyRoll),
         leftArm |-> Arm(leftArmSwing, leftArmRoll, leftElbowFlex),
         rightArm |-> Arm(rightArmSwing, rightArmRoll, rightElbowFlex),
         leftLeg |-> Leg(legSwing, 0, legLift),
         rightLeg |-> Leg(oppositeLegSwing, 0, oppositeLegLift)]

squatPrep ==
    [torso |-> Torso(2500, 0),
     leftArm |-> Arm(3500, 0, 1000), rightArm |-> Arm(3500, 0, 1000),
     leftLeg |-> Leg(2500, 0, 3000), rightLeg |-> Leg(2500, 0, 3000)]

squat ==
    [torso |-> Torso(5000, 0),
     leftArm |-> Arm(5000, 0, 2000), rightArm |-> Arm(5000, 0, 2000),
     leftLeg |-> Leg(7000, 0, 11000), rightLeg |-> Leg(7000, 0, 11000)]

reachDown ==
    [torso |-> Torso(5500, 0),
     leftArm |-> Arm(3000, 0, 1000), rightArm |-> Arm(12000, 0, 3000),
     leftLeg |-> Leg(7000, 0, 11000), rightLeg |-> Leg(7000, 0, 11000)]

\* weight in thousandths of a unit (0.35 = 350)
holding(weight) ==
    LET isHeavy  == weight > 350
        backLean == IF isHeavy THEN -800 ELSE -300
    IN  [torso |-> Torso(backLean, 0),
         leftArm |-> Arm(1000, 0, 2000), rightArm |-> Arm(4000, 0, 5000),
         leftLeg |-> Leg(0, 0, 0), rightLeg |-> Leg(0, 0, 0)]

\* ------------------------------------------------------------------- scene
\* Strings that are searched by substring are sequences of characters; a
\* Hangul syllable is one character, written here by its romanisation.
S_red == <<"r", "e", "d">>
S_blue == <<"b", "l", "u", "e">>
S_green == <<"g", "r", "e", "e", "n">>
S_box == <<"b", "o", "x">>
S_cube == <<"c", "u", "b", "e">>
S_ball == <<"b", "a", "l", "l">>
S_sphere == <<"s", "p", "h", "e", "r", "e">>
S_cylinder == <<"c", "y", "l", "i", "n", "d", "e", "r">>
S_redbox == S_red \o <<" ">> \o S_box
S_blueball == S_blue \o <<" ">> \o S_ball
S_greencylinder == S_green \o <<" ">> \o S_cylinder
S_yellow == <<"y", "e", "l", "l", "o", "w">>
S_hexRed == <<"#", "e", "f", "4", "4", "4", "4">>
S_hexBlue == <<"#", "3", "b", "8", "2", "f", "6">>
S_hexGreen == <<"#", "1", "0", "b", "9", "8", "1">>
K_ppalgan == <<"ppal", "gan">>
K_paran == <<"pa", "ran">>
K_chorok == <<"cho", "rok">>
K_sangja == <<"sang", "ja">>
K_gong == <<"gong">>
K_sillindeo == <<"sil", "lin", "deo">>

RobotIds == <<"robot-1", "robot-2">>
ObjectIds == <<"obj-1", "obj-2", "obj-3">>

ObjName(id) ==
    CASE id = "obj-1" -> S_redbox [] id = "obj-2" -> S_blueball [] OTHER -> S_greencylinder
ObjType(id) ==
    CASE id = "obj-1" -> "box" [] id = "obj-2" -> "sphere" [] OTHER -> "cylinder"
ObjColor(id) ==
    CASE id = "obj-1" -> S_hexRed [] id = "obj-2" -> S_hexBlue [] OTHER -> S_hexGreen
ObjSize(id) == 300

Vec(x, y, z) == [x |-> x, y |-> y, z |-> z]

DEFAULT_POSE ==
    [torso |-> None,
     leftArm  |-> [shoulder |-> [pitch |-> 0, roll |-> None], elbow |-> [flex |-> 0]],
     rightArm |-> [shoulder |-> [pitch |-> 0, roll |-> None], elbow |-> [flex |-> 0]],
     leftLeg  |-> [hip |-> [pitch |-> 0, roll |-> None], knee |-> [flex |-> 0]],
     rightLeg |-> [hip |-> [pitch |-> 0, roll |-> None], knee |-> [flex |-> 0]]]

InitRobot(id) ==
    [id |-> id, pose |-> DEFAULT_POSE, position |-> Vec(0, 0, 0), rotation |-> 0,
     holdingObjectId |-> NULL]

InitObject(id) ==
    [id |-> id, name |-> ObjName(id), type |-> ObjType(id), color |-> ObjColor(id),
     size |-> ObjSize(id),
     position |-> CASE id = "obj-1" -> Vec(1000, -1500, 0)
                    [] id = "obj-2" -> Vec(-1000, -1500, 1000)
                    [] OTHER -> Vec(500, -1500, -1500),
     isPicked |-> FALSE]

\* The object with the given id as the list reader sees it.
Obj(objs, id) == objs[id]

\* ------------------------------------------------------------ actionPlanner.ts
RECURSIVE SqrtSearch(_, _, _)
SqrtSearch(n, lo, hi) ==
    IF lo >= hi THEN lo
    ELSE LET mid == (lo + hi + 1) \div 2
         IN  IF mid * mid <= n THEN SqrtSearch(n, mid, hi) ELSE SqrtSearch(n, lo, mid - 1)

\* floor of the square root
Sqrt(n) == SqrtSearch(n, 0, 40000)

distance(p1, p2) ==
    Sqrt((p2.x - p1.x) * (p2.x - p1.x) + (p2.y - p1.y) * (p2.y - p1.y)
         + (p2.z - p1.z) * (p2.z - p1.z))

\* Math.atan2(y, x) in hundredths of a degree: octant reduction around the
\* rational approximation atan(r) = 45 r + 15.64 r (1 - r) degrees, |r| <= 1,
\* which is exact on the axes and the diagonals and within 0.3 degrees elsewhere.
Atan2Deg(y, x) ==
    LET ax == Abs(x)
        ay == Abs(y)
        hi == Max(ax, ay)
        lo == Min(ax, ay)
        r  == IF hi = 0 THEN 0 ELSE Quot(lo * Unit, hi)
        a0 == Quot(4500 * r, Unit) + Quot(1564 * Quot(r * (Unit - r), Unit), Unit)
        a1 == IF ay > ax THEN 9000 - a0 ELSE a0
        a2 == IF x < 0 THEN 18000 - a1 ELSE a1
    IN  IF y < 0 THEN -a2 ELSE a2

angleTo(from, to) ==
    LET dx == to.x - from.x
        dz == to.z - from.z
    IN  Atan2Deg(dx, -dz)

ToLowerChar(c) ==
    CASE c = "R" -> "r" [] c = "B" -> "b" [] c = "G" -> "g" [] OTHER -> c

toLowerCase(s) == [i \in 1..Len(s) |-> ToLowerChar(s[i])]

\* String.prototype.includes
includes(s, sub) ==
    \E i \in 0..(Len(s) - Len(sub)) : SubSeq(s, i + 1, i + Len(sub)) = sub

\* Array.prototype.find over the object list, in list order
RECURSIVE FindFrom(_, _, _)
FindFrom(objs, matching, i) ==
    IF i > Len(ObjectIds) THEN None
    ELSE IF ObjectIds[i] \in matching
         THEN Some(Obj(objs, ObjectIds[i]))
         ELSE FindFrom(objs, matching, i + 1)

\* matching: the ids of the objects the predicate of find accepts
find(objs, matching) == FindFrom(objs, matching, 1)

colorMap ==
    << <<K_ppalgan, <<S_red, S_hexRed>> >>,
       <<S_red, <<S_red, S_hexRed>> >>,
       <<K_paran, <<S_blue, S_hexBlue>> >>,
       <<S_blue, <<S_blue, S_hexBlue>> >>,
       <<K_chorok, <<S_green, S_hexGreen>> >>,
       <<S_green, <<S_green, S_hexGreen>> >> >>

RECURSIVE FindByColor(_, _, _)
FindByColor(objs, desc, k) ==
    IF k > Len(colorMap) THEN None
    ELSE LET keyword == colorMap[k][1]
             colors  == colorMap[k][2]
             Match(obj) == /\ ~obj.isPicked
                           /\ \E j \in 1..Len(colors) :
                                 includes(obj.color, colors[j]) \/ includes(obj.name, colors[j])
             found   == IF includes(desc, keyword)
                        THEN find(objs, {id \in DOMAIN objs : Match(Obj(objs, id))})
                        ELSE None
         IN  IF IsSome(found) THEN found ELSE FindByColor(objs, desc, k + 1)

\* The predicate of the first find with the test of isPicked left out.
ByNameAttached(obj, desc) == includes(toLowerCase(obj.name), desc)
\* obj => !obj.isPicked && obj.name.toLowerCase().includes(desc)
ByName(obj, desc) == ~obj.isPicked /\ includes(toLowerCase(obj.name), desc)

findObjectByDescription(objs, description) ==
    LET desc == toLowerCase(description)
        IsBox(obj) == ~obj.isPicked /\ obj.type = "box"
        IsSphere(obj) == ~obj.isPicked /\ obj.type = "sphere"
        IsCylinder(obj) == ~obj.isPicked /\ obj.type = "cylinder"
        t1 == find(objs, {id \in DOMAIN objs : ByName(Obj(objs, id), desc)})
        t2 == FindByColor(objs, desc, 1)
        t3 == IF includes(desc, K_sangja) \/ includes(desc, S_box) \/ includes(desc, S_cube)
              THEN find(objs, {id \in DOMAIN objs : IsBox(Obj(objs, id))}) ELSE None
        t4 == IF includes(desc, K_gong) \/ includes(desc, S_ball) \/ includes(desc, S_sphere)
              THEN find(objs, {id \in DOMAIN objs : IsSphere(Obj(objs, id))}) ELSE None
        t5 == IF includes(desc, K_sillindeo) \/ includes(desc, S_cylinder)
              THEN find(objs, {id \in DOMAIN objs : IsCylinder(Obj(objs, id))}) ELSE None
    IN  IF IsSome(t1) THEN t1
        ELSE IF IsSome(t2) THEN t2
        ELSE IF IsSome(t3) THEN t3
        ELSE IF IsSome(t4) THEN t4
        ELSE t5

Step(type, pos, rot, oid, dur) ==
    [type |-> type, targetPosition |-> pos, targetRotation |-> rot, objectId |-> oid,
     duration |-> dur]

createPickPlan(robot, targetObject) ==
    LET targetPos == [targetObject.position EXCEPT !.y = 0]
        dist == distance(robot.position, targetPos)
        needsNavigation == dist > 500
        nav == IF needsNavigation
               THEN <<Step("navigate", Some(targetPos), None, None, Some(Quot(dist * 500, Unit)))>>
               ELSE <<>>
        targetRotation == angleTo(robot.position, targetPos)
    IN  [id |-> <<"pick", targetObject.id>>,
         steps |-> nav \o
                   <<Step("align", None, Some(targetRotation), None, Some(300)),
                     Step("squat", None, None, None, Some(500)),
                     Step("reach", None, None, None, Some(400)),
                     Step("grasp", None, None, Some(targetObject.id), Some(100)),
                     Step("lift", None, None, None, Some(600))>>]

\* A drop plan that puts the object down only when the actor holds one.
createDropPlanIfHolding(robot) ==
    [id |-> <<"drop">>,
     steps |-> <<Step("squat", None, None, None, Some(500))>>
               \o (IF robot.holdingObjectId = NULL THEN <<>>
                   ELSE <<Step("drop", None, None, None, Some(100))>>)
               \o <<Step("stand", None, None, None, Some(600))>>]

createDropPlan(robot) ==
    [id |-> <<"drop">>,
     steps |-> <<Step("squat", None, None, None, Some(500)),
                 Step("drop", None, None, None, Some(100)),
                 Step("stand", None, None, None, Some(600))>>]

\* ----------------------------------------------------------- actionExecutor.ts
\* A program state as one record, so that a handler and the handlers it calls
\* synchronously compose as functions from state to state.
\*   execs           one record per executeActionPlan invocation (its closure)
\*   timers          the timers alive in the JavaScript runtime
\*   activeIntervals the module-level set of tracked interval ids
\* A timer id is the pair <<execution, step index>> of the step that made it.
State(r, o, e, a, t, c, h) ==
    [robots |-> r, objects |-> o, execs |-> e, activeIntervals |-> a, timers |-> t,
     cmd |-> c, hist |-> h]

TickMs == 16
DefaultDuration == 500

\* const duration = step.duration || 500
StepDuration(step) ==
    IF IsSome(step.duration) /\ Get(step.duration) # 0 THEN Get(step.duration)
    ELSE DefaultDuration

createManagedInterval(st, e, idx) ==
    [st EXCEPT !.timers = @ \cup {[e |-> e, idx |-> idx, kind |-> "interval",
                                   ms |-> TickMs, elapsed |-> 0]},
               !.activeIntervals = @ \cup {<<e, idx>>}]

\* clearManagedInterval that forgets activeIntervals.delete(id)
clearManagedIntervalKeepsId(st, e, idx) ==
    [st EXCEPT !.timers = {t \in @ : ~(t.kind = "interval" /\ t.e = e /\ t.idx = idx)}]

\* clearManagedInterval that forgets clearInterval(id)
clearManagedIntervalLeaky(st, e, idx) ==
    [st EXCEPT !.activeIntervals = @ \ {<<e, idx>>}]

clearManagedInterval(st, e, idx) ==
    [st EXCEPT !.timers = {t \in @ : ~(t.kind = "interval" /\ t.e = e /\ t.idx = idx)},
               !.activeIntervals = @ \ {<<e, idx>>}]

cleanupAllIntervals(st) ==
    [st EXCEPT !.timers = {t \in @ : ~(t.kind = "interval" /\ <<t.e, t.idx>> \in st.activeIntervals)},
               !.activeIntervals = {}]

setTimeout(st, e, idx, ms) ==
    [st EXCEPT !.timers = @ \cup {[e |-> e, idx |-> idx, kind |-> "timeout",
                                   ms |-> ms, elapsed |-> 0]}]

\* Observation only: which step last wrote an actor's record, which steps
\* wrote it before, and whether an earlier writer wrote again after a later one.
NoteWrite(st, rid, w) ==
    [st EXCEPT !.hist.writes[rid] =
        IF @.last = w THEN @
        ELSE [last |-> w,
              closed |-> IF @.last = None THEN @.closed ELSE @.closed \cup {@.last},
              interleaved |-> @.interleaved \/ w \in @.closed]]

\* a setRobots whose updater maps every actor
SetRobotAll(st, rid, w, mapped) ==
    IF rid \in DOMAIN st.robots
    THEN NoteWrite([st EXCEPT !.robots = [id \in DOMAIN @ |-> mapped]], rid, w)
    ELSE st

\* setRobots(prev => prev.map(r => r.id !== robot.id ? r : mapped)), where
\* mapped is what the updater makes of the actor's current record
SetRobot(st, rid, w, mapped) ==
    IF rid \in DOMAIN st.robots
    THEN NoteWrite([st EXCEPT !.robots[rid] = mapped], rid, w)
    ELSE st

\* Observation only: the steps that changed the object list.
NoteObjectWrite(st, e, idx) ==
    [st EXCEPT !.hist.objWriters = @ \cup {<<e, idx>>}]

NoteStarted(st, e, idx) ==
    [st EXCEPT !.hist.ex[e].started = Append(@, idx), !.hist.ex[e].progress = 0]

\* Observation only: the normalized progress of the tick that ran last.
NoteProgress(st, e, progress) ==
    [st EXCEPT !.hist.ex[e].progress = progress]

NoteCompleted(st, e, idx, how, progress) ==
    [st EXCEPT !.hist.ex[e].completed = Append(@, <<idx, how, progress>>)]

\* a completion that does not invoke the callback
PlanCompleteSilent(st, e) == st

\* The plan's completion callback: console.log for applyAction and for a
\* direct call, the promise's resolve for handleCommand.
PlanComplete(st, e) ==
    LET s1 == [st EXCEPT !.hist.ex[e].callbacks = @ + 1]
    IN  IF st.execs[e].onComplete = "resolve" /\ s1.cmd.waitingFor = e
        THEN [s1 EXCEPT !.cmd.resolved = TRUE]
        ELSE s1

\* a grasp that leaves the object's flag as it is
GraspObjectsUnflagged(objs, step) == objs

GraspObjects(objs, step) ==
    [id \in DOMAIN objs |->
        IF id = Get(step.objectId) THEN [objs[id] EXCEPT !.isPicked = TRUE] ELSE objs[id]]

\* a drop that repositions the object but leaves it attached
DropObjectsKeepsFlag(objs, r) ==
    [id \in DOMAIN objs |->
        IF id = r.holdingObjectId
        THEN [objs[id] EXCEPT !.position = [r.position EXCEPT !.y = -1500]]
        ELSE objs[id]]

DropObjects(objs, r) ==
    [id \in DOMAIN objs |->
        IF id = r.holdingObjectId
        THEN [objs[id] EXCEPT !.isPicked = FALSE, !.position = [r.position EXCEPT !.y = -1500]]
        ELSE objs[id]]

\* the guards without the one of align
MissingParameterNoAlign(step) ==
    \/ step.type = "navigate" /\ ~IsSome(step.targetPosition)
    \/ step.type = "grasp" /\ ~IsSome(step.objectId)

\* The guards of executeActionStep: a step without its required parameter.
MissingParameter(step) ==
    \/ step.type = "navigate" /\ ~IsSome(step.targetPosition)
    \/ step.type = "align" /\ ~IsSome(step.targetRotation)
    \/ step.type = "grasp" /\ ~IsSome(step.objectId)

InterpolatedTypes == {"navigate", "align", "squat", "reach", "lift", "stand"}
KnownTypes == InterpolatedTypes \cup {"grasp", "drop"}

\* executeNext and executeActionStep call each other: a step that completes
\* at once calls onComplete, which is executeNext, before it returns.
RECURSIVE executeNext(_, _)

\* The switch of executeActionStep past the guards: an interpolated step
\* registers its interval, grasp and drop mutate and register a timeout.
StartStep(st, e, idx, step) ==
    LET robot == st.execs[e].robot
        w     == Some(<<e, idx>>)
        duration == StepDuration(step)
    IN  IF step.type \in InterpolatedTypes
        THEN createManagedInterval(st, e, idx)
        ELSE IF step.type = "grasp"
        THEN LET HoldIt(r) == [r EXCEPT !.holdingObjectId = Get(step.objectId)]
                 s1 == NoteObjectWrite([st EXCEPT !.objects = GraspObjects(@, step)], e, idx)
                 s2 == SetRobot(s1, robot.id, w, HoldIt(s1.robots[robot.id]))
             IN  setTimeout(s2, e, idx, duration)
        ELSE \* drop
             LET r  == st.robots[robot.id]
                 Release(x) == [x EXCEPT !.holdingObjectId = NULL]
                 s1 == IF robot.id \in DOMAIN st.robots /\ r.holdingObjectId # NULL
                       THEN SetRobot(NoteObjectWrite([st EXCEPT !.objects = DropObjects(@, r)],
                                                     e, idx),
                                     robot.id, w, Release(r))
                       ELSE st
             IN  setTimeout(s1, e, idx, duration)

\* executeActionStep with the return after onComplete() missing in the grasp
\* guard: control falls through to the timeout registration.
executeActionStepNoReturn(st, e, idx, step) ==
    LET s0 == NoteStarted(st, e, idx)
    IN  IF MissingParameter(step) \/ step.type \notin KnownTypes
        THEN LET s1 == executeNext(NoteCompleted(s0, e, idx, "noop", 0), e)
             IN  IF step.type = "grasp" THEN setTimeout(s1, e, idx, StepDuration(step)) ELSE s1
        ELSE StartStep(s0, e, idx, step)

executeActionStep(st, e, idx, step) ==
    LET s0 == NoteStarted(st, e, idx)
    IN  IF MissingParameter(step) \/ step.type \notin KnownTypes
        THEN executeNext(NoteCompleted(s0, e, idx, "noop", 0), e)
        ELSE StartStep(s0, e, idx, step)

executeNext(st, e) ==
    LET x == st.execs[e]
    IN  IF x.currentStepIndex >= Len(x.plan.steps)
        THEN PlanComplete(st, e)
        ELSE LET step == x.plan.steps[x.currentStepIndex + 1]
                 s1   == [st EXCEPT !.execs[e].currentStepIndex = @ + 1]
             IN  executeActionStep(s1, e, x.currentStepIndex + 1, step)

\* Observation only: the steps an execution started and completed, how often
\* its completion callback ran, the executions still unfinished when it began,
\* and the command and intent it was made for (<<0, 0>> for a direct call).
NewHist(st) ==
    [started |-> <<>>, completed |-> <<>>, callbacks |-> 0, progress |-> 0,
     concurrent |-> {k \in 1..Len(st.execs) : st.hist.ex[k].callbacks = 0},
     origin |-> IF st.cmd.at = "idle" THEN <<0, 0>> ELSE <<st.cmd.submitted, st.cmd.i + 1>>]

executeActionPlan(st, plan, robot, onComplete) ==
    LET e  == Len(st.execs) + 1
        s1 == [st EXCEPT !.execs = Append(@, [plan |-> plan, robot |-> robot,
                                             currentStepIndex |-> 0,
                                             onComplete |-> onComplete]),
                         !.hist.ex = Append(@, NewHist(st))]
    IN  executeNext(s1, e)

\* elapsed / duration without the cap at 1
ProgressUncapped(elapsed, duration) == Quot(elapsed * Unit, duration)

\* Math.min(elapsed / duration, 1), in permille
Progress(elapsed, duration) == Min(Quot(elapsed * Unit, duration), Unit)

\* a completion test that fires from half of the duration on
FullProgressEarly(elapsed, duration) == 2 * elapsed >= duration

\* progress >= 1, decided exactly
FullProgress(elapsed, duration) == elapsed >= duration

\* (elapsed / 600) % 1 as degrees of the stride circle
StridePeriod == 600
WalkPhaseDeg(elapsed) == Quot((elapsed % StridePeriod) * 360, StridePeriod)

NavigateTick(r, robot, step, elapsed, duration) ==
    LET startPos == robot.position
        targetPos == Get(step.targetPosition)
        targetRotation == IF IsSome(step.targetRotation) THEN Get(step.targetRotation)
                          ELSE robot.rotation
        easedProgress == easeInOut(Progress(elapsed, duration))
        groundLevel == -350
        newPos == [lerpVec3(startPos, targetPos, easedProgress) EXCEPT
                      !.y = groundLevel + Quot(SinDeg(WalkPhaseDeg(elapsed)) * 30, Unit)]
        walkPose == walkCycle(WalkPhaseDeg(elapsed))
    IN  [r EXCEPT !.position = newPos, !.pose = walkPose, !.rotation = targetRotation]

NavigateSnap(r, step) ==
    [r EXCEPT !.position = [Get(step.targetPosition) EXCEPT !.y = -350]]

AlignTick(r, robot, step, elapsed, duration) ==
    LET startRotation == robot.rotation
        targetRotation == Get(step.targetRotation)
        easedProgress == easeInOut(Progress(elapsed, duration))
    IN  [r EXCEPT !.rotation = startRotation
                                + Quot((targetRotation - startRotation) * easedProgress, Unit)]

\* a squat tick that blends by the eased progress in its second phase
SquatTickEased(r, robot, step, elapsed, duration) ==
    LET startPose == robot.pose
        groundLevel == -350
        progress == Progress(elapsed, duration)
        easedProgress == easeOutBack(progress)
        inPrep == 10 * elapsed < 3 * duration
        targetPose == IF inPrep THEN squatPrep ELSE squat
        poseProgress == IF inPrep THEN Quot(progress * 10, 3) ELSE easedProgress
        fromPose == IF inPrep THEN startPose ELSE squatPrep
    IN  [r EXCEPT !.pose = lerpPose(fromPose, targetPose, poseProgress),
                  !.position.y = groundLevel - Quot(easedProgress * 400, Unit)]

SquatTick(r, robot, step, elapsed, duration) ==
    LET startPose == robot.pose
        groundLevel == -350
        progress == Progress(elapsed, duration)
        easedProgress == easeOutBack(progress)
        \* progress < 0.3, decided exactly
        inPrep == 10 * elapsed < 3 * duration
        targetPose == IF inPrep THEN squatPrep ELSE squat
        poseProgress == IF inPrep THEN Quot(progress * 10, 3)
                        ELSE Quot((progress - 300) * 10, 7)
        fromPose == IF inPrep THEN startPose ELSE squatPrep
    IN  [r EXCEPT !.pose = lerpPose(fromPose, targetPose, poseProgress),
                  !.position.y = groundLevel - Quot(easedProgress * 400, Unit)]

ReachArm(start, target, shoulderProgress, elbowProgress) ==
    [shoulder |-> [pitch |-> start.shoulder.pitch
                             + Quot((target.shoulder.pitch - start.shoulder.pitch)
                                    * shoulderProgress, Unit),
                   roll  |-> Some(OrElse(start.shoulder.roll, 0))],
     elbow    |-> [flex |-> start.elbow.flex
                            + Quot((target.elbow.flex - start.elbow.flex) * elbowProgress, Unit)]]

ReachTick(r, robot, step, elapsed, duration) ==
    LET startPose == robot.pose
        easedProgress == easeOut(Progress(elapsed, duration))
        shoulderProgress == Min(Quot(easedProgress * 13, 10), Unit)
        elbowProgress == Max(0, easedProgress - 150)
    IN  [r EXCEPT !.pose =
            [torso    |-> startPose.torso,
             leftArm  |-> ReachArm(startPose.leftArm, reachDown.leftArm,
                                   shoulderProgress, elbowProgress),
             rightArm |-> ReachArm(startPose.rightArm, reachDown.rightArm,
                                   shoulderProgress, elbowProgress),
             leftLeg  |-> startPose.leftLeg,
             rightLeg |-> startPose.rightLeg]]

\* The size of the object the actor holds is read by an updater queued from
\* inside another updater: it has run by the time the pose is computed only
\* when React applies it eagerly; otherwise the default 0.3 is still in place.
LiftWeight(r, objs, eager) ==
    IF eager /\ r.holdingObjectId \in DOMAIN objs THEN objs[r.holdingObjectId].size ELSE 300

LiftTick(r, robot, step, elapsed, duration, objectWeight) ==
    LET startPose == robot.pose
        groundLevel == -350
        easedProgress == easeOut(Progress(elapsed, duration))
        holdPose == holding(objectWeight)
        torsoStraightenPhase == Max(0, Quot((easedProgress - 400) * 10, 6))
        currentTorso == OrElse(startPose.torso, [pitch |-> 5500, roll |-> 0])
        targetTorso == OrElse(holdPose.torso, [pitch |-> -300, roll |-> 0])
        blended == lerpPose(startPose, holdPose, easedProgress)
        newPose == IF IsSome(blended.torso)
                   THEN [blended EXCEPT !.torso =
                            Some([Get(blended.torso) EXCEPT !.pitch =
                                     lerp(currentTorso.pitch, targetTorso.pitch,
                                          torsoStraightenPhase)])]
                   ELSE blended
        squatY == groundLevel - 400
    IN  [r EXCEPT !.pose = newPose,
                  !.position.y = squatY + Quot(easedProgress * 400, Unit)]

\* a stand tick that also empties the actor's hand
StandTickReleases(r, robot, step, elapsed, duration) ==
    LET startPose == robot.pose
        groundLevel == -400
        easedProgress == easeInOut(Progress(elapsed, duration))
        squatY == groundLevel - 400
    IN  [r EXCEPT !.pose = lerpPose(startPose, idle, easedProgress),
                  !.position.y = squatY + Quot(easedProgress * 400, Unit),
                  !.holdingObjectId = NULL]

StandTick(r, robot, step, elapsed, duration) ==
    LET startPose == robot.pose
        groundLevel == -400
        easedProgress == easeInOut(Progress(elapsed, duration))
        squatY == groundLevel - 400
    IN  [r EXCEPT !.pose = lerpPose(startPose, idle, easedProgress),
                  !.position.y = squatY + Quot(easedProgress * 400, Unit)]

\* One run of the callback a step registered with createManagedInterval.
IntervalCallback(st, t, eager) ==
    LET e == t.e
        idx == t.idx
        x == st.execs[e]
        robot == x.robot
        step == x.plan.steps[idx]
        w == Some(<<e, idx>>)
        duration == StepDuration(step)
        elapsed == t.elapsed
        Mutate(r) ==
            CASE step.type = "navigate" -> NavigateTick(r, robot, step, elapsed, duration)
              [] step.type = "align" -> AlignTick(r, robot, step, elapsed, duration)
              [] step.type = "squat" -> SquatTick(r, robot, step, elapsed, duration)
              [] step.type = "reach" -> ReachTick(r, robot, step, elapsed, duration)
              [] step.type = "lift" ->
                    LiftTick(r, robot, step, elapsed, duration, LiftWeight(r, st.objects, eager))
              [] OTHER -> StandTick(r, robot, step, elapsed, duration)
        Snap(r) == NavigateSnap(r, step)
        s1 == NoteProgress(SetRobot(st, robot.id, w, Mutate(st.robots[robot.id])),
                           e, Progress(elapsed, duration))
    IN  IF FullProgress(elapsed, duration)
        THEN LET s2 == clearManagedInterval(s1, e, idx)
                 s3 == IF step.type = "navigate" THEN SetRobot(s2, robot.id, w, Snap(s2.robots[robot.id])) ELSE s2
                 s4 == NoteCompleted(s3, e, idx, "full", Progress(elapsed, duration))
             IN  \* onComplete() is called with the state the callback has made so far
                 CHOOSE after \in {executeNext(s, e) : s \in {s4}} : TRUE
        ELSE s1

\* a timeout whose callback does not call onComplete
TimeoutCallbackLost(st, t) ==
    [st EXCEPT !.timers = @ \ {t}]

\* The callback grasp and drop registered with setTimeout(onComplete, duration).
TimeoutCallback(st, t) ==
    LET s1 == [st EXCEPT !.timers = @ \ {t}]
        s2 == NoteCompleted(s1, t.e, t.idx, "delay",
                            Progress(t.elapsed, StepDuration(st.execs[t.e].plan.steps[t.idx])))
    IN  executeNext(s2, t.e)

\* -------------------------------------------------------- PhysicalAIMVP.tsx
\* cmd is the one handleCommand invocation the chat panel allows at a time:
\*   at          "idle" | "parse" (awaiting the parser) | "await" (awaiting a
\*               plan's promise) | "delay" (awaiting the 500 ms pause)
\*   robots, objects   the state values the handler's closure captured
\*   i           number of intents the loop has finished
\*   waitingFor  the execution whose completion resolves the awaited promise
Intent(type, objectName) == [type |-> type, objectName |-> objectName]

FirstRobot == RobotIds[1]

IdleCmd(n) ==
    [submitted |-> n, at |-> "idle", intents |-> <<>>, i |-> 0,
     robots |-> <<>>, objects |-> <<>>, waitingFor |-> 0, resolved |-> FALSE]

\* a loop that awaits pick plans only
AwaitsCompletionPickOnly(intent) == intent.type = "pick"

\* The intents whose plan handleCommand awaits (the others go to applyAction).
AwaitsCompletion(intent) == intent.type = "pick" \/ intent.type = "drop"

NotPicked(obj) == ~obj.isPicked

\* intent.objectName ? findObjectByDescription(...) : objects.find(o => !o.isPicked)
ResolveTarget(objs, intent) ==
    IF IsSome(intent.objectName) /\ Len(Get(intent.objectName)) > 0
    THEN findObjectByDescription(objs, Get(intent.objectName))
    ELSE find(objs, {id \in DOMAIN objs : NotPicked(Obj(objs, id))})

\* The pick and drop branches shared by applyAction and the promise executor
\* of handleCommand: the precondition checks on the captured state, then plan
\* creation and executeActionPlan.  A failed check resolves at once.
\* Observation only: an intent that reached the precondition checks, with the
\* actor's and the objects' state at that moment and whether a plan was made.
NoteIntent(before, after, intent) ==
    LET actual == ResolveTarget(before.objects, intent)
    IN  [after EXCEPT !.hist.intents = @ \cup
            {[type |-> intent.type,
              holding |-> before.robots[FirstRobot].holdingObjectId,
              resolves |-> IF intent.type = "pick" THEN IsSome(actual) ELSE TRUE,
              created |-> Len(after.execs) > Len(before.execs),
              unchanged |-> after.robots = before.robots /\ after.objects = before.objects]}]

StartIntentPlanBody(st, intent, onComplete) ==
    LET robot == st.cmd.robots[FirstRobot]
        target == ResolveTarget(st.cmd.objects, intent)
        rejected == [st EXCEPT !.cmd.resolved = (onComplete = "resolve")]
    IN  IF intent.type = "pick"
        THEN IF robot.holdingObjectId # NULL THEN rejected
             ELSE IF ~IsSome(target) THEN rejected
             ELSE executeActionPlan([st EXCEPT !.cmd.waitingFor =
                                        IF onComplete = "resolve" THEN Len(st.execs) + 1 ELSE @],
                                    createPickPlan(robot, Get(target)), robot, onComplete)
        ELSE IF robot.holdingObjectId = NULL THEN rejected
             ELSE executeActionPlan([st EXCEPT !.cmd.waitingFor =
                                        IF onComplete = "resolve" THEN Len(st.execs) + 1 ELSE @],
                                    createDropPlan(robot), robot, onComplete)

StartIntentPlan(st, intent, onComplete) ==
    NoteIntent(st, StartIntentPlanBody(st, intent, onComplete), intent)

applyAction(st, intent) ==
    IF intent.type = "unknown" THEN st
    ELSE IF intent.type = "pick" \/ intent.type = "drop"
    THEN StartIntentPlan(st, intent, "log")
    ELSE IF intent.type = "reset"
    THEN [st EXCEPT !.robots = [id \in DOMAIN @ |-> [@[id] EXCEPT !.pose = DEFAULT_POSE]]]
    ELSE st

PauseMs == 500

\* The body of the for loop of handleCommand from the current intent on, up
\* to the next await that does not resolve at once, or to the end of the loop.
RECURSIVE RunLoop(_)
RunLoop(st) ==
    LET c == st.cmd
    IN  IF c.i >= Len(c.intents)
        THEN [st EXCEPT !.cmd = IdleCmd(c.submitted),
                        !.hist.done = Append(@, [intents |-> c.intents,
                                                 held |-> c.robots[FirstRobot].holdingObjectId])]
        ELSE LET intent == c.intents[c.i + 1]
             IN  IF AwaitsCompletion(intent)
                 THEN LET s1 == StartIntentPlan([st EXCEPT !.cmd.resolved = FALSE,
                                                           !.cmd.waitingFor = 0],
                                                intent, "resolve")
                      IN  IF s1.cmd.resolved
                          THEN RunLoop([s1 EXCEPT !.cmd.i = @ + 1, !.cmd.resolved = FALSE,
                                                  !.cmd.waitingFor = 0])
                          ELSE [s1 EXCEPT !.cmd.at = "await"]
                 ELSE LET s1 == applyAction(st, intent)
                      IN  IF c.i < Len(c.intents) - 1
                          THEN [s1 EXCEPT !.cmd.at = "delay",
                                          !.timers = @ \cup {[e |-> 0, idx |-> c.i + 1,
                                                             kind |-> "pause", ms |-> PauseMs,
                                                             elapsed |-> 0]}]
                          ELSE RunLoop([s1 EXCEPT !.cmd.i = @ + 1])

\* The continuation of an await whose promise a callback has just resolved
\* runs before any other timer callback.
Microtasks(st) ==
    IF st.cmd.at = "await" /\ st.cmd.resolved
    THEN RunLoop([st EXCEPT !.cmd.i = @ + 1, !.cmd.resolved = FALSE, !.cmd.waitingFor = 0,
                            !.cmd.at = "loop"])
    ELSE st

\* ------------------------------------------------------------------ clamp.ts
\* Math.max(min, Math.min(max, value))
\* Numbers that are not finite, and JSON's null, encoded outside every angle:
\* Infinity above and -Infinity below every finite value, so that Math.min and
\* Math.max order them as they do; NaN and null are tested for before any
\* comparison.
Infinity == 1000 * Unit * Unit
NaN == Infinity + 1
JsonNull == Infinity + 2

\* ToNumber, as Math.min, Math.max and Math.abs apply it to an argument
ToNumber(v) == IF v = JsonNull THEN 0 ELSE v

MathAbs(v) == IF ToNumber(v) = NaN THEN NaN ELSE Abs(ToNumber(v))

\* A clamp that forgets the upper limit.
clampBelowOnly(value, min, max) ==
    IF ToNumber(value) = NaN THEN NaN ELSE Max(min, ToNumber(value))
\* Math.max(min, Math.min(max, value)); NaN if value is NaN
clamp(value, min, max) ==
    IF ToNumber(value) = NaN THEN NaN ELSE Max(min, Min(max, ToNumber(value)))

\* Joint limits, in hundredths of a degree.
JOINT_LIMITS ==
    [shoulder |-> [pitch |-> [min |-> -45 * 100, max |-> 180 * 100]],
     elbow    |-> [flex  |-> [min |-> 0, max |-> 140 * 100]],
     hip      |-> [pitch |-> [min |-> -30 * 100, max |-> 110 * 100]],
     knee     |-> [flex  |-> [min |-> 0, max |-> 140 * 100]]]

\* JSON.parse(JSON.stringify(pose)): a new object; a number that is not finite
\* is written as null, an absent (undefined) field stays absent.
JsonNumber(v) == IF v \in {NaN, Infinity, -Infinity} THEN JsonNull ELSE v

JsonOptional(o) == IF IsSome(o) THEN Some(JsonNumber(Get(o))) ELSE None

jsonCopyArm(arm) ==
    [shoulder |-> [pitch |-> JsonNumber(arm.shoulder.pitch),
                   roll |-> JsonOptional(arm.shoulder.roll)],
     elbow |-> [flex |-> JsonNumber(arm.elbow.flex)]]

jsonCopyLeg(leg) ==
    [hip |-> [pitch |-> JsonNumber(leg.hip.pitch), roll |-> JsonOptional(leg.hip.roll)],
     knee |-> [flex |-> JsonNumber(leg.knee.flex)]]

jsonCopy(pose) ==
    [torso |-> IF IsSome(pose.torso)
               THEN Some([pitch |-> JsonNumber(Get(pose.torso).pitch),
                          roll |-> JsonNumber(Get(pose.torso).roll)])
               ELSE None,
     leftArm |-> jsonCopyArm(pose.leftArm), rightArm |-> jsonCopyArm(pose.rightArm),
     leftLeg |-> jsonCopyLeg(pose.leftLeg), rightLeg |-> jsonCopyLeg(pose.rightLeg)]

constrainArm(arm) ==
    [arm EXCEPT !.shoulder.pitch = clamp(@, JOINT_LIMITS.shoulder.pitch.min,
                                         JOINT_LIMITS.shoulder.pitch.max),
                !.elbow.flex = clamp(MathAbs(@), JOINT_LIMITS.elbow.flex.min,
                                     JOINT_LIMITS.elbow.flex.max)]

constrainLeg(leg) ==
    [leg EXCEPT !.hip.pitch = clamp(@, JOINT_LIMITS.hip.pitch.min,
                                    JOINT_LIMITS.hip.pitch.max),
                !.knee.flex = clamp(MathAbs(@), JOINT_LIMITS.knee.flex.min,
                                    JOINT_LIMITS.knee.flex.max)]

\* the assignments to constrained.* of constrainPose
constrainJoints(constrained) ==
    [constrained EXCEPT !.leftArm = constrainArm(@), !.rightArm = constrainArm(@),
                        !.leftLeg = constrainLeg(@), !.rightLeg = constrainLeg(@)]

\* The value constrainPose returns.
constrainPose(pose) == constrainJoints(jsonCopy(pose))

\* A constrainPose that works on its argument instead of on a copy.
constrainPoseInPlace(pose) ==
    [pose |-> constrainJoints(pose), returned |-> constrainJoints(pose)]
\* A call of constrainPose: the object passed in as the call leaves it (the
\* assignments go to the copy), and the value returned.
constrainPoseCall(pose) ==
    [pose |-> pose, returned |-> constrainPose(pose)]

\* ------------------------------------------------------------------ the model
Cur == State(robots, objects, execs, activeIntervals, timers, cmd, hist)

\* (s ranges over a singleton so that the new state is computed once)
Becomes(st) ==
    \E s \in {st} :
        /\ robots' = s.robots
        /\ objects' = s.objects
        /\ execs' = s.execs
        /\ activeIntervals' = s.activeIntervals
        /\ timers' = s.timers
        /\ cmd' = s.cmd
        /\ hist' = s.hist
        /\ call' = call

NoWrites == [last |-> None, closed |-> {}, interleaved |-> FALSE]

\* call is the last call of a function of the planner or of clamp.ts made
\* directly, with its arguments and its result.
NoCall == [fn |-> "none"]

InitWith(rids, oids) ==
    /\ robots = [id \in rids |-> InitRobot(id)]
    /\ objects = [id \in oids |-> InitObject(id)]
    /\ execs = <<>>
    /\ activeIntervals = {}
    /\ timers = {}
    /\ cmd = IdleCmd(0)
    /\ hist = [ex |-> <<>>, writes |-> [id \in rids |-> NoWrites], intents |-> {},
               done |-> <<>>, objWriters |-> {}]
    /\ call = NoCall

\* The engine driven through its entry point, for a scene of two actors and
\* two objects.
Init == InitWith({RobotIds[1], RobotIds[2]}, {ObjectIds[1], ObjectIds[2]})

\* The application as constructed: one actor.
InitApp == InitWith({FirstRobot}, {ObjectIds[k] : k \in 1..Len(ObjectIds)})

\* Plans that no planner function produces: steps without their required
\* parameter, a step of a type the executor does not know, no step at all.
EmptyPlan == [id |-> <<"custom", 0>>, steps |-> <<>>]

MalformedPlan ==
    [id |-> <<"custom", 1>>,
     steps |-> <<Step("navigate", None, None, None, Some(400)),
                 Step("align", None, None, None, Some(300)),
                 Step("grasp", None, None, None, Some(100)),
                 Step("stand", None, None, None, None)>>]

TrailingNoopPlan ==
    [id |-> <<"custom", 2>>,
     steps |-> <<Step("align", None, Some(9000), None, Some(300)),
                 Step("windUp", None, None, None, Some(500)),
                 Step("grasp", None, None, None, Some(100))>>]

\* A drop step for an actor whatever it holds.
BareDropPlan ==
    [id |-> <<"custom", 3>>, steps |-> <<Step("drop", None, None, None, Some(100))>>]

CustomPlans == {EmptyPlan, MalformedPlan, TrailingNoopPlan, BareDropPlan}

\* A caller that checks nothing before it asks for a plan.
PlannerPlansUnguarded(robot, objs) ==
    {createPickPlan(robot, Obj(objs, o)) : o \in DOMAIN objs} \cup {createDropPlan(robot)}

\* What a caller of the planner may ask for in the state it sees: a pick of
\* an unattached object by an empty-handed actor, a drop by an actor that
\* holds something.
PlannerPlans(robot, objs) ==
    {createPickPlan(robot, Obj(objs, o)) :
        o \in {id \in DOMAIN objs : robot.holdingObjectId = NULL /\ ~objs[id].isPicked}}
    \cup (IF robot.holdingObjectId # NULL THEN {createDropPlan(robot)} ELSE {})

ClockSteps == {200}

Deadline(t) ==
    IF t.kind = "interval" THEN StepDuration(execs[t.e].plan.steps[t.idx]) ELSE t.ms

\* executeActionPlan called with the actor's current record.
ExecuteActionPlan(rid, plan) ==
    /\ Len(execs) < MaxExecs
    /\ Becomes(executeActionPlan(Cur, plan, robots[rid], "log"))

IntervalTick(t, eager) ==
    /\ t.kind = "interval"
    /\ t.elapsed >= t.ms
    /\ \E after \in {IntervalCallback(Cur, t, eager)} : Becomes(Microtasks(after))

TimeoutFire(t) ==
    /\ t.kind = "timeout"
    /\ t.elapsed >= t.ms
    /\ \E after \in {TimeoutCallback(Cur, t)} : Becomes(Microtasks(after))

\* Date.now() moves on.  A timer that is due runs before the clock moves on
\* by another step.
ClockAdvance(d) ==
    /\ timers # {}
    /\ \A t \in timers : t.elapsed < Deadline(t)
    /\ timers' = {[t EXCEPT !.elapsed = @ + d] : t \in timers}
    /\ UNCHANGED <<robots, objects, execs, activeIntervals, cmd, hist, call>>

CleanupAllIntervals ==
    /\ activeIntervals # {}
    /\ Becomes(cleanupAllIntervals(Cur))

Next ==
    \/ \E rid \in DOMAIN robots :
          \E plan \in PlannerPlans(robots[rid], objects) \cup CustomPlans :
             ExecuteActionPlan(rid, plan)
    \/ \E t \in timers : \E eager \in (IF execs[t.e].plan.steps[t.idx].type = "lift"
                                       THEN BOOLEAN ELSE {TRUE}) : IntervalTick(t, eager)
    \/ \E t \in timers : TimeoutFire(t)
    \/ \E d \in ClockSteps : ClockAdvance(d)
    \/ CleanupAllIntervals

Spec == Init /\ [][Next]_vars

\* The engine while the host never tears the timers down: the event loop
\* runs every callback that is due and the clock keeps advancing.
NextRunning ==
    \/ \E rid \in DOMAIN robots :
          \E plan \in PlannerPlans(robots[rid], objects) \cup CustomPlans :
             ExecuteActionPlan(rid, plan)
    \/ \E t \in timers : \E eager \in (IF execs[t.e].plan.steps[t.idx].type = "lift"
                                       THEN BOOLEAN ELSE {TRUE}) : IntervalTick(t, eager)
    \/ \E t \in timers : TimeoutFire(t)
    \/ \E d \in ClockSteps : ClockAdvance(d)

TimersRun ==
    /\ WF_vars(\E t \in timers : \E eager \in BOOLEAN : IntervalTick(t, eager))
    /\ WF_vars(\E t \in timers : TimeoutFire(t))
    /\ WF_vars(\E d \in ClockSteps : ClockAdvance(d))

InitRunning == InitWith({FirstRobot}, {ObjectIds[1]})

RunningSpec == InitRunning /\ [][NextRunning]_vars /\ TimersRun

\* ------------------------------------------------- one actor, one plan at a time
\* Largest number of plans executed one after the other.
MaxSerial == 3

InitSerial == InitWith({FirstRobot}, {ObjectIds[1], ObjectIds[2]})

\* The caller of applyAction's pick and drop branches, made only when every
\* earlier plan has completed: the plan is created from the actor and the
\* objects as they are now and handed to executeActionPlan.
ExecuteSerially(plan) ==
    /\ Len(execs) < MaxSerial
    /\ \A e \in 1..Len(execs) : hist.ex[e].callbacks > 0
    /\ Becomes(executeActionPlan(Cur, plan, robots[FirstRobot], "log"))

NextSerial ==
    \/ \E plan \in PlannerPlans(robots[FirstRobot], objects) : ExecuteSerially(plan)
    \/ \E t \in timers : \E eager \in (IF execs[t.e].plan.steps[t.idx].type = "lift"
                                       THEN BOOLEAN ELSE {TRUE}) : IntervalTick(t, eager)
    \/ \E t \in timers : TimeoutFire(t)
    \/ \E d \in ClockSteps : ClockAdvance(d)

SerialSpec == InitSerial /\ [][NextSerial]_vars

\* The same caller in a scene whose second object is larger than the
\* threshold of MOTIONS.holding (size 0.4 > 0.35).
InitHeavy ==
    /\ robots = [id \in {FirstRobot} |-> InitRobot(id)]
    /\ objects = [id \in {ObjectIds[1], ObjectIds[2]} |->
                     IF id = ObjectIds[2] THEN [InitObject(id) EXCEPT !.size = 400]
                     ELSE InitObject(id)]
    /\ execs = <<>>
    /\ activeIntervals = {}
    /\ timers = {}
    /\ cmd = IdleCmd(0)
    /\ hist = [ex |-> <<>>, writes |-> [id \in {FirstRobot} |-> NoWrites], intents |-> {},
               done |-> <<>>, objWriters |-> {}]
    /\ call = NoCall

HeavySpec == InitHeavy /\ [][NextSerial]_vars

\* ------------------------------------------------------------ the application
\* Largest number of intents the parser returns for one command.
MaxIntents == 2

IntentChoices ==
    {Intent("pick", Some(S_red)), Intent("pick", Some(S_blue)), Intent("pick", Some(S_yellow)),
     Intent("pick", None), Intent("drop", None), Intent("reset", None)}

RECURSIVE SeqsUpTo(_, _)
SeqsUpTo(S, n) ==
    IF n = 0 THEN {<<>>}
    ELSE LET shorter == SeqsUpTo(S, n - 1)
         IN  shorter \cup {Append(q, x) : q \in shorter, x \in S}

CommandSet == SeqsUpTo(IntentChoices, MaxIntents) \ {<<>>}

\* ChatPanel.handleSubmit: one command at a time; handleCommand starts with
\* the robots and objects values of the render it was created in.
Submit ==
    /\ cmd.at = "idle"
    /\ cmd.submitted < MaxCommands
    /\ cmd' = [cmd EXCEPT !.submitted = @ + 1, !.at = "parse",
                          !.robots = robots, !.objects = objects]
    /\ UNCHANGED <<robots, objects, execs, activeIntervals, timers, hist, call>>

\* parseCommandWithGPT returns; the for loop runs up to its first await.
ParseDone(intents) ==
    /\ cmd.at = "parse"
    /\ Becomes(RunLoop([Cur EXCEPT !.cmd.intents = intents, !.cmd.i = 0, !.cmd.at = "loop"]))

\* The 500 ms pause after an intent that is neither pick nor drop ends.
PauseFire(t) ==
    /\ t.kind = "pause"
    /\ t.elapsed >= t.ms
    /\ Becomes(RunLoop([Cur EXCEPT !.timers = @ \ {t}, !.cmd.i = @ + 1, !.cmd.at = "loop"]))

NextApp ==
    \/ Submit
    \/ \E intents \in CommandSet : ParseDone(intents)
    \/ \E t \in timers : PauseFire(t)
    \/ \E t \in timers : \E eager \in (IF t.kind = "interval"
                                          /\ execs[t.e].plan.steps[t.idx].type = "lift"
                                       THEN BOOLEAN ELSE {TRUE}) : IntervalTick(t, eager)
    \/ \E t \in timers : TimeoutFire(t)
    \/ \E d \in ClockSteps : ClockAdvance(d)

AppSpec == InitApp /\ [][NextApp]_vars

\* ------------------------------------------------- the planner called directly
\* The planner's functions applied to an actor and an object list as a caller
\* may hold them: the actor anywhere it can stand after a plan (the executor
\* leaves it at ground level y = -0.35), any part of the scene's list, any
\* objects attached.
ActorPositions ==
    {Vec(0, 0, 0), Vec(0, -350, 0), Vec(600, 0, 0), Vec(600, -350, 0), Vec(-1000, 0, 1000)}

\* The order in which the list holds the scene's objects: the k-th entry of the
\* list (the one read k-th by find) is the scene object order[ObjectIds[k]].
ListOrders ==
    {[id \in {"obj-1", "obj-2", "obj-3"} |-> id],
     [id \in {"obj-1", "obj-2", "obj-3"} |->
         CASE id = "obj-1" -> "obj-3" [] id = "obj-3" -> "obj-1" [] OTHER -> id]}

Descriptions ==
    {S_redbox, S_red, <<"R", "E", "D">>, S_blue, S_green, K_ppalgan, K_paran, S_box, S_cube, K_sangja,
     S_ball, K_gong, S_cylinder, S_yellow, <<>>, <<"e">>,
     S_green \o <<" ">> \o S_ball, S_blue \o <<" ">> \o S_box,
     S_yellow \o <<" ">> \o S_sphere, S_blue \o <<" ">> \o S_red,
     S_green \o <<" ">> \o S_red, S_cylinder \o <<" ">> \o S_box}

InitPlanner ==
    /\ \E p \in ActorPositions : \E h \in {NULL, ObjectIds[1]} :
          robots = [id \in {FirstRobot} |->
                       [InitRobot(id) EXCEPT !.position = p, !.holdingObjectId = h]]
    /\ \E list \in SUBSET {ObjectIds[k] : k \in 1..Len(ObjectIds)} :
          \E picked \in SUBSET list : \E far \in BOOLEAN : \E order \in ListOrders :
             objects = [id \in list |->
                           [InitObject(id) EXCEPT
                               !.name = ObjName(order[id]),
                               !.type = ObjType(order[id]),
                               !.color = ObjColor(order[id]),
                               !.isPicked = id \in picked,
                               !.position = IF far /\ id = ObjectIds[1] THEN Vec(2000, -1500, 0) ELSE @]]
    /\ execs = <<>>
    /\ activeIntervals = {}
    /\ timers = {}
    /\ cmd = IdleCmd(0)
    /\ hist = [ex |-> <<>>, writes |-> [id \in {FirstRobot} |-> NoWrites], intents |-> {},
               done |-> <<>>, objWriters |-> {}]
    /\ call = NoCall

Unchanged == UNCHANGED <<robots, objects, execs, activeIntervals, timers, cmd, hist>>

FindObjectByDescription(description) ==
    /\ call' = [fn |-> "findObjectByDescription", description |-> description,
                result |-> findObjectByDescription(objects, description)]
    /\ Unchanged

CreatePickPlan(rid, oid) ==
    /\ call' = [fn |-> "createPickPlan", robot |-> robots[rid], object |-> Obj(objects, oid),
                result |-> createPickPlan(robots[rid], Obj(objects, oid))]
    /\ Unchanged

CreateDropPlan(rid) ==
    /\ call' = [fn |-> "createDropPlan", robot |-> robots[rid],
                result |-> createDropPlan(robots[rid])]
    /\ Unchanged

NextPlanner ==
    \/ \E description \in Descriptions : FindObjectByDescription(description)
    \/ \E rid \in DOMAIN robots : \E oid \in DOMAIN objects : CreatePickPlan(rid, oid)
    \/ \E rid \in DOMAIN robots : CreateDropPlan(rid)

PlannerSpec == InitPlanner /\ [][NextPlanner]_vars

\* ------------------------------------------------- constrainPose called directly
\* Limbs a pose passed to constrainPose may have: within the limits, below
\* and above them, with negative flex, the hip of the walk cycle at its
\* backmost, and numbers that are not finite.
ArmChoices ==
    {Arm(45 * 100, 0, 90 * 100), Arm(-90 * 100, 0, -30 * 100), Arm(200 * 100, 10 * 100, 150 * 100),
     Arm(NaN, 0, -Infinity), Arm(Infinity, NaN, NaN)}

LegChoices ==
    {Leg(30 * 100, 0, 60 * 100), Leg(-3024, 0, -5 * 100), Leg(120 * 100, 0, 200 * 100),
     Leg(-Infinity, 0, Infinity), Leg(NaN, Infinity, -150 * 100),
     [hip |-> [pitch |-> -45 * 100, roll |-> None], knee |-> [flex |-> -141 * 100]]}

InitClamp ==
    /\ \E la \in ArmChoices : \E ra \in ArmChoices : \E ll \in LegChoices : \E rl \in LegChoices :
       \E torso \in {None, Torso(10 * 100, Infinity)} :
          robots = [id \in {FirstRobot} |->
                       [InitRobot(id) EXCEPT !.pose = [torso |-> torso, leftArm |-> la,
                                                      rightArm |-> ra, leftLeg |-> ll,
                                                      rightLeg |-> rl]]]
    /\ objects = [id \in {} |-> InitObject(id)]
    /\ execs = <<>>
    /\ activeIntervals = {}
    /\ timers = {}
    /\ cmd = IdleCmd(0)
    /\ hist = [ex |-> <<>>, writes |-> [id \in {FirstRobot} |-> NoWrites], intents |-> {},
               done |-> <<>>, objWriters |-> {}]
    /\ call = NoCall

\* constrainPose(robot.pose)
ConstrainPose(rid) ==
    /\ call.fn = "none"
    /\ \E c \in {constrainPoseCall(robots[rid].pose)} :
          /\ call' = [fn |-> "constrainPose", pose |-> robots[rid].pose, result |-> c.returned]
          /\ robots' = [robots EXCEPT ![rid].pose = c.pose]
    /\ UNCHANGED <<objects, execs, activeIntervals, timers, cmd, hist>>

NextClamp == \E rid \in DOMAIN robots : ConstrainPose(rid)

ClampSpec == InitClamp /\ [][NextClamp]_vars

\* ------------------------------------------------- motion.ts called directly
\* lerp, lerpVec3 and lerpPose applied from the first actor's heading,
\* position and pose (a) to the second actor's (b).  The poses are those the
\* program holds: DEFAULT_POSE has neither torso nor roll, the MOTIONS poses
\* have both; OneRollPose has a roll on its left limbs only.
OneRollPose ==
    [torso |-> None,
     leftArm |-> Arm(20 * 100, 5 * 100, 30 * 100),
     rightArm |-> [shoulder |-> [pitch |-> -10 * 100, roll |-> None], elbow |-> [flex |-> 15 * 100]],
     leftLeg |-> Leg(10 * 100, -2 * 100, 40 * 100),
     rightLeg |-> [hip |-> [pitch |-> 35 * 100, roll |-> None], knee |-> [flex |-> 0]]]

PoseChoices == {DEFAULT_POSE, idle, squat, reachDown, holding(300), OneRollPose}

PositionChoices == {Vec(0, 0, 0), Vec(1000, -350, -1500)}

RotationChoices == {0, 90 * 100, -45 * 100}

TChoices == {0, Unit \div 2, Unit}

InitMotion ==
    /\ \E pa \in PoseChoices : \E pb \in PoseChoices :
       \E va \in PositionChoices : \E vb \in PositionChoices :
       \E ra \in RotationChoices : \E rb \in RotationChoices :
          robots = [id \in {RobotIds[1], RobotIds[2]} |->
                       IF id = RobotIds[1]
                       THEN [InitRobot(id) EXCEPT !.pose = pa, !.position = va, !.rotation = ra]
                       ELSE [InitRobot(id) EXCEPT !.pose = pb, !.position = vb, !.rotation = rb]]
    /\ objects = [id \in {} |-> InitObject(id)]
    /\ execs = <<>>
    /\ activeIntervals = {}
    /\ timers = {}
    /\ cmd = IdleCmd(0)
    /\ hist = [ex |-> <<>>, writes |-> [id \in {RobotIds[1], RobotIds[2]} |-> NoWrites],
               intents |-> {}, done |-> <<>>, objWriters |-> {}]
    /\ call = NoCall

Lerp(t) ==
    /\ call' = [fn |-> "lerp", a |-> robots[RobotIds[1]].rotation,
                b |-> robots[RobotIds[2]].rotation, t |-> t,
                result |-> lerp(robots[RobotIds[1]].rotation, robots[RobotIds[2]].rotation, t)]
    /\ Unchanged

LerpVec3(t) ==
    /\ call' = [fn |-> "lerpVec3", a |-> robots[RobotIds[1]].position,
                b |-> robots[RobotIds[2]].position, t |-> t,
                result |-> lerpVec3(robots[RobotIds[1]].position,
                                    robots[RobotIds[2]].position, t)]
    /\ Unchanged

LerpPose(t) ==
    /\ call' = [fn |-> "lerpPose", a |-> robots[RobotIds[1]].pose,
                b |-> robots[RobotIds[2]].pose, t |-> t,
                result |-> lerpPose(robots[RobotIds[1]].pose, robots[RobotIds[2]].pose, t)]
    /\ Unchanged

NextMotion ==
    \/ \E t \in TChoices : Lerp(t)
    \/ \E t \in TChoices : LerpVec3(t)
    \/ \E t \in TChoices : LerpPose(t)

MotionSpec == InitMotion /\ [][NextMotion]_vars

\* ------------------------------------------- the squat tick called directly
\* The callback of a squat step run once at a given clock reading, for an
\* actor that stands at ground level in any of the poses the program holds.
\* The readings cover both phases, the boundary at 0.3 of the duration
\* (150 of 500) and a reading past the duration.
SquatDuration == 500

ElapsedChoices == {25 * k : k \in 0..24}

InitSquat ==
    /\ \E pa \in PoseChoices :
          robots = [id \in {FirstRobot} |->
                       [InitRobot(id) EXCEPT !.pose = pa, !.position.y = -350]]
    /\ objects = [id \in {} |-> InitObject(id)]
    /\ execs = <<>>
    /\ activeIntervals = {}
    /\ timers = {}
    /\ cmd = IdleCmd(0)
    /\ hist = [ex |-> <<>>, writes |-> [id \in {FirstRobot} |-> NoWrites],
               intents |-> {}, done |-> <<>>, objWriters |-> {}]
    /\ call = NoCall

SquatCallback(elapsed) ==
    /\ call' = [fn |-> "squat", start |-> robots[FirstRobot].pose, elapsed |-> elapsed,
                duration |-> SquatDuration,
                result |-> SquatTick(robots[FirstRobot], robots[FirstRobot],
                                     Step("squat", None, None, None, Some(SquatDuration)),
                                     elapsed, SquatDuration)]
    /\ Unchanged

NextSquat == \E elapsed \in ElapsedChoices : SquatCallback(elapsed)

SquatSpec == InitSquat /\ [][NextSquat]_vars

\* ===================================================================== claims
Execs == 1..Len(execs)
Steps(e) == execs[e].plan.steps
StepTimers(e) == {t \in timers : t.kind # "pause" /\ t.e = e}
Finished(e) == hist.ex[e].callbacks > 0

\* The steps the claims call malformed, stated on the step record itself.
LacksParameter(step) ==
    \/ (step.type = "navigate" /\ step.targetPosition = <<>>)
    \/ (step.type = "align" /\ step.targetRotation = <<>>)
    \/ (step.type = "grasp" /\ step.objectId = <<>>)

\* A recorded completion is a real one: full progress of an interpolated
\* step, the whole delay of a grasp or drop, or the guard of a step that
\* lacks its parameter or has an unknown type.
Genuine(e, c) ==
    LET step == Steps(e)[c[1]]
    IN  CASE c[2] = "full" -> step.type \in InterpolatedTypes /\ c[3] = Unit
          [] c[2] = "delay" -> step.type \in {"grasp", "drop"} /\ c[3] = Unit
          [] OTHER -> step.type \notin KnownTypes \/ LacksParameter(step)

\* C1: the steps of a plan start in plan order, step i+1 only after step i
\* has reached full progress (or its delay has elapsed), and the completion
\* callback runs only after as many step completions as the plan has steps.
C1_StepsInPlanOrder ==
    \A e \in Execs :
        LET h == hist.ex[e]
        IN  /\ \A i \in 1..Len(h.started) : h.started[i] = i
            /\ \A i \in 1..Len(h.completed) : h.completed[i][1] = i /\ Genuine(e, h.completed[i])
            /\ Len(h.started) <= Len(Steps(e))
            /\ Len(h.completed) <= Len(h.started)
            /\ Len(h.started) <= Len(h.completed) + 1
            /\ (h.callbacks > 0 => Len(h.completed) = Len(Steps(e)))

C1_Witness ==
    \E e \in Execs : Finished(e) /\ Len(Steps(e)) = 6 /\ Len(hist.ex[e].completed) = 6

\* C2: the completion callback of an executed plan never runs twice, and it
\* has run once as soon as the last step has completed.
C2_CallbackAtMostOnce ==
    \A e \in Execs :
        /\ hist.ex[e].callbacks <= 1
        /\ (Len(hist.ex[e].completed) = Len(Steps(e)) => hist.ex[e].callbacks = 1)

C2_Witness ==
    \E e \in Execs : execs[e].plan = TrailingNoopPlan /\ hist.ex[e].callbacks = 1

\* C3: one plan execution has at most one live timer, and it is the timer of
\* the step started last.
C3_OneTimerPerPlan ==
    \A e \in Execs :
        /\ Cardinality(StepTimers(e)) <= 1
        /\ Cardinality({a \in activeIntervals : a[1] = e}) <= 1
        /\ \A t \in StepTimers(e) : t.idx = execs[e].currentStepIndex

C3_Witness ==
    \E t \in timers :
        /\ t.kind = "interval"
        /\ t.idx >= 2
        /\ \E c \in 1..Len(hist.ex[t.e].completed) :
              hist.ex[t.e].completed[c] = <<t.idx - 1, "full", Unit>>

\* C4: for every actor at most one step is live at a time, and a step never
\* writes the actor's record again after a later step has written it.
C4_OneLiveStepPerActor ==
    \A rid \in DOMAIN robots :
        /\ Cardinality({t \in timers : t.kind # "pause" /\ execs[t.e].robot.id = rid}) <= 1
        /\ ~hist.writes[rid].interleaved

\* C5: no two actors hold the same object.
C5_ObjectHeldByAtMostOneActor ==
    \A r1, r2 \in DOMAIN robots :
        (r1 # r2 /\ robots[r1].holdingObjectId # NULL)
            => robots[r1].holdingObjectId # robots[r2].holdingObjectId

\* C10: a step that lacks its required parameter completes in the call that
\* starts it, makes no timer, writes no actor or object, and the plan goes on
\* with the next step (or completes, when it was the last).
C10_MalformedStepIsNoop ==
    \A e \in Execs :
        \A i \in 1..Len(hist.ex[e].started) :
            LET idx == hist.ex[e].started[i]
                step == Steps(e)[idx]
                h == hist.ex[e]
            IN  LacksParameter(step) =>
                    /\ \A t \in StepTimers(e) : t.idx # idx
                    /\ <<e, idx>> \notin activeIntervals
                    /\ <<e, idx>> \notin hist.objWriters
                    /\ \A rid \in DOMAIN robots :
                          /\ hist.writes[rid].last # Some(<<e, idx>>)
                          /\ Some(<<e, idx>>) \notin hist.writes[rid].closed
                    /\ \E c \in 1..Len(h.completed) : h.completed[c] = <<idx, "noop", 0>>
                    /\ IF idx < Len(Steps(e))
                       THEN \E j \in 1..Len(h.started) : h.started[j] = idx + 1
                       ELSE h.callbacks = 1

C10_Witness ==
    \E e \in Execs :
        /\ execs[e].plan = MalformedPlan
        /\ hist.ex[e].started = <<1, 2, 3, 4>>
        /\ \E t \in timers : t.e = e /\ t.idx = 4 /\ t.kind = "interval"

\* An execution that ran with no other execution unfinished beside it, and
\* after which no other has been started.
RanAlone(e) == hist.ex[e].concurrent = {} /\ Finished(e)
IsPickPlan(e) == execs[e].plan.id[1] = "pick"
IsDropPlan(e) == execs[e].plan.id[1] = "drop"
PickTarget(e) == execs[e].plan.id[2]

PickRanFromEmptyHand(e) ==
    /\ IsPickPlan(e)
    /\ execs[e].robot.holdingObjectId = NULL
    /\ RanAlone(e)

DropRanAfterPick(e) ==
    /\ e >= 2
    /\ PickRanFromEmptyHand(e - 1)
    /\ IsDropPlan(e)
    /\ execs[e].robot.id = execs[e - 1].robot.id
    /\ RanAlone(e)

\* C6: a pick plan for T run to completion from an empty hand leaves the
\* actor holding T and T attached; a drop plan run to completion afterwards
\* leaves the actor holding nothing and T unattached.
C6_PickThenDrop ==
    \A e \in Execs :
        /\ (PickRanFromEmptyHand(e) /\ Len(execs) = e) =>
              /\ robots[execs[e].robot.id].holdingObjectId = PickTarget(e)
              /\ objects[PickTarget(e)].isPicked
        /\ (DropRanAfterPick(e) /\ Len(execs) = e) =>
              /\ robots[execs[e].robot.id].holdingObjectId = NULL
              /\ ~objects[PickTarget(e - 1)].isPicked

C6_Witness == \E e \in Execs : DropRanAfterPick(e) /\ Len(execs) = e

PickRed == Intent("pick", Some(S_red))
PickBlue == Intent("pick", Some(S_blue))
DropIt == Intent("drop", None)

\* C7: each intent of a command is checked and planned against the state the
\* preceding intents left: [pick X, drop] from an empty hand ends with
\* nothing held and nothing attached, and no object is ever attached while
\* the actor holds another one.
C7_IntentsSeeStateLeftByPredecessors ==
    /\ (/\ cmd.at = "idle"
        /\ Len(hist.done) > 0
        /\ hist.done[Len(hist.done)].intents = <<PickRed, DropIt>>
        /\ hist.done[Len(hist.done)].held = NULL)
       => /\ robots[FirstRobot].holdingObjectId = NULL
          /\ \A o \in DOMAIN objects : ~objects[o].isPicked
    /\ \A o \in DOMAIN objects :
          objects[o].isPicked =>
              robots[FirstRobot].holdingObjectId \in {NULL, o}

OriginBefore(a, b) == a[1] < b[1] \/ (a[1] = b[1] /\ a[2] < b[2])

\* C8: the plan of an intent starts only after the completion callback of
\* the previous plan has run, and plans start in the order of the intents.
C8_PlansOfACommandInSequence ==
    /\ Cardinality({e \in Execs : ~Finished(e)}) <= 1
    /\ \A e \in Execs :
          /\ hist.ex[e].concurrent = {}
          /\ hist.ex[e].origin[1] > 0
          /\ e > 1 => OriginBefore(hist.ex[e - 1].origin, hist.ex[e].origin)

C8_Witness ==
    \E e \in Execs :
        /\ e > 1
        /\ hist.ex[e].origin[1] = hist.ex[e - 1].origin[1]
        /\ Finished(e - 1)
        /\ ~Finished(e)

\* C9: a pick reaching the checks while the actor holds an object, a pick
\* whose description resolves to no unattached object and a drop while the
\* actor holds nothing make no plan and change no actor or object.
C9_RejectedIntentsChangeNothing ==
    \A n \in hist.intents :
        (\/ (n.type = "pick" /\ (n.holding # NULL \/ ~n.resolves))
         \/ (n.type = "drop" /\ n.holding = NULL))
            => (~n.created /\ n.unchanged)

\* The joint ranges of the claims, in hundredths of a degree.
InRange(v, lo, hi) == lo * 100 <= v /\ v <= hi * 100

ArmWithinLimits(arm) ==
    InRange(arm.shoulder.pitch, -45, 180) /\ InRange(arm.elbow.flex, 0, 140)

LegWithinLimits(leg) ==
    InRange(leg.hip.pitch, -30, 110) /\ InRange(leg.knee.flex, 0, 140)

WithinLimits(pose) ==
    /\ ArmWithinLimits(pose.leftArm) /\ ArmWithinLimits(pose.rightArm)
    /\ LegWithinLimits(pose.leftLeg) /\ LegWithinLimits(pose.rightLeg)

\* C11: every pose the executor has committed to an actor lies within the
\* joint limits, on every tick of every step kind.
C11_CommittedPosesWithinLimits ==
    \A rid \in DOMAIN robots : WithinLimits(robots[rid].pose)

\* C12: the step of cleanupAllIntervals leaves no timer of the engine
\* pending (so no step callback can run afterwards) and an empty tracked set.
C12_CleanupCancelsEveryTimer ==
    [][CleanupAllIntervals =>
          /\ {t \in timers' : t.kind # "pause"} = {}
          /\ activeIntervals' = {}]_vars

C14_EmptyPlanCompletesAtOnce ==
    [][\A rid \in DOMAIN robots :
          ExecuteActionPlan(rid, EmptyPlan) =>
              /\ hist'.ex[Len(execs')].callbacks = 1
              /\ timers' = timers
              /\ activeIntervals' = activeIntervals
              /\ robots' = robots
              /\ objects' = objects
              /\ hist'.writes = hist.writes
              /\ hist'.objWriters = hist.objWriters]_vars

C14_Witness ==
    \E e \in Execs : Steps(e) = <<>> /\ hist.ex[e].callbacks = 1 /\ hist.ex[e].started = <<>>

Found == call.fn = "findObjectByDescription"

\* What a description asks for, read from the three tiers of the specification.
ColourWords ==
    {<<{K_ppalgan, S_red}, {S_red, S_hexRed}>>,
     <<{K_paran, S_blue}, {S_blue, S_hexBlue}>>,
     <<{K_chorok, S_green}, {S_green, S_hexGreen}>>}

ShapeWords ==
    {<<{K_sangja, S_box, S_cube}, "box">>,
     <<{K_gong, S_ball, S_sphere}, "sphere">>,
     <<{K_sillindeo, S_cylinder}, "cylinder">>}

NameTier(o, d) == includes(toLowerCase(o.name), toLowerCase(d))

ColourTier(o, d) ==
    \E cw \in ColourWords :
        /\ \E k \in cw[1] : includes(toLowerCase(d), k)
        /\ \E c \in cw[2] : includes(o.color, c) \/ includes(o.name, c)

ShapeTier(o, d) ==
    \E sw \in ShapeWords :
        /\ \E k \in sw[1] : includes(toLowerCase(d), k)
        /\ o.type = sw[2]

Matching(d) ==
    {id \in DOMAIN objects :
        NameTier(objects[id], d) \/ ColourTier(objects[id], d) \/ ShapeTier(objects[id], d)}

\* C15: the object findObjectByDescription returns is a member of the list
\* that is not attached, and the result is null when every object of the list
\* that matches the description is attached.
C15_FoundObjectIsUnattached ==
    Found =>
        /\ IsSome(call.result) =>
              LET o == Get(call.result)
              IN  /\ o.id \in DOMAIN objects
                  /\ o = objects[o.id]
                  /\ ~objects[o.id].isPicked
        /\ (\A id \in Matching(call.description) : objects[id].isPicked) =>
              call.result = None

\* The only object a description matches is attached, and the call returned null.
C15_Witness ==
    /\ Found
    /\ Matching(call.description) # {}
    /\ \A id \in Matching(call.description) : objects[id].isPicked
    /\ \E id \in DOMAIN objects : ~objects[id].isPicked
    /\ call.result = None

\* The first entry, in list order, of a set of entries of the list.
FirstOf(ids) == ObjectIds[CHOOSE k \in 1..Len(ObjectIds) :
                              /\ ObjectIds[k] \in ids
                              /\ \A j \in 1..(k - 1) : ObjectIds[j] \notin ids]

UnattachedIn1(d) == {id \in DOMAIN objects : ~objects[id].isPicked /\ NameTier(objects[id], d)}
UnattachedIn2(d) == {id \in DOMAIN objects : ~objects[id].isPicked /\ ColourTier(objects[id], d)}
UnattachedIn3(d) == {id \in DOMAIN objects : ~objects[id].isPicked /\ ShapeTier(objects[id], d)}

TierResult(d) ==
    IF UnattachedIn1(d) # {} THEN Some(objects[FirstOf(UnattachedIn1(d))])
    ELSE IF UnattachedIn2(d) # {} THEN Some(objects[FirstOf(UnattachedIn2(d))])
    ELSE IF UnattachedIn3(d) # {} THEN Some(objects[FirstOf(UnattachedIn3(d))])
    ELSE None

\* C16: findObjectByDescription returns the first unattached object of the list
\* whose name contains the description; if there is none, the first unattached
\* object matching the colour of a colour keyword of the description; if there
\* is none, the first unattached object whose shape is named by a shape keyword
\* of the description; and null exactly when no tier has an object.
C16_ResolvesInTierOrder ==
    Found => call.result = TierResult(call.description)

\* A description with two shape keywords, no name or colour match, and the
\* call returned an object that is not the first of the list of either shape.
C16_Counterexample ==
    /\ Found
    /\ call.description = S_cylinder \o <<" ">> \o S_box
    /\ UnattachedIn1(call.description) = {} /\ UnattachedIn2(call.description) = {}
    /\ IsSome(call.result)
    /\ Get(call.result).id # FirstOf(UnattachedIn3(call.description))

\* The same property for lists in the scene's order (box, sphere, cylinder).
SceneOrder == \A id \in DOMAIN objects : objects[id].name = ObjName(id)

C16_InSceneOrder == (Found /\ SceneOrder) => call.result = TierResult(call.description)

Picked == call.fn = "createPickPlan"

StepTypes(plan) == [i \in 1..Len(plan.steps) |-> plan.steps[i].type]

\* The distance from the actor to the object in the ground plane (x and z only).
PlanarDistance(robot, object) ==
    Sqrt((object.position.x - robot.position.x) * (object.position.x - robot.position.x)
         + (object.position.z - robot.position.z) * (object.position.z - robot.position.z))

PickSteps == <<"align", "squat", "reach", "grasp", "lift">>

\* C17: createPickPlan returns align, squat, reach, grasp, lift in that order,
\* preceded by one navigate step if and only if the distance from the actor to
\* the object exceeds 0.5; exactly one step is a grasp, it carries the target's
\* id, and the last step is lift.
C17_PickPlanShape ==
    Picked =>
        LET plan == call.result
            far == PlanarDistance(call.robot, call.object) > 500
        IN  /\ StepTypes(plan) = (IF far THEN <<"navigate">> ELSE <<>>) \o PickSteps
            /\ \A i \in 1..Len(plan.steps) :
                  plan.steps[i].type = "grasp" => plan.steps[i].objectId = Some(call.object.id)
            /\ plan.steps[Len(plan.steps)].type = "lift"

\* An actor within 0.5 of the object in the ground plane gets a navigate step.
C17_Counterexample ==
    /\ Picked
    /\ PlanarDistance(call.robot, call.object) <= 500
    /\ StepTypes(call.result) = <<"navigate">> \o PickSteps

\* The part of C17 that does not depend on the distance.
C17_StepsAfterNavigate ==
    Picked =>
        LET plan == call.result
            n == Len(plan.steps)
        IN  /\ n \in {5, 6}
            /\ SubSeq(StepTypes(plan), n - 4, n) = PickSteps
            /\ n = 6 => plan.steps[1].type = "navigate"
            /\ plan.steps[n - 1].objectId = Some(call.object.id)

\* C18: createPickPlan measures the distance in the ground plane only, whatever
\* the actor's vertical coordinate: a navigate step is planned exactly when
\* that distance exceeds 0.5 and its duration is that distance times 500 ms;
\* from the origin to an object 2.0 away the plan has 6 steps and the navigate
\* step lasts 1000 ms.
C18_PlanarDistance ==
    Picked =>
        LET plan == call.result
            d == PlanarDistance(call.robot, call.object)
        IN  /\ plan.steps[1].type = "navigate" <=> d > 500
            /\ plan.steps[1].type = "navigate" =>
                  plan.steps[1].duration = Some(Quot(d * 500, Unit))
            /\ (call.robot.position = Vec(0, 0, 0) /\ d = 2000) =>
                  Len(plan.steps) = 6 /\ plan.steps[1].duration = Some(1000)

\* An actor at ground level 2.0 from the object in the plane gets a navigate
\* step that lasts longer than 1000 ms.
C18_Counterexample ==
    /\ Picked
    /\ call.robot.position.y # 0
    /\ PlanarDistance(call.robot, call.object) = 2000
    /\ call.result.steps[1].type = "navigate"
    /\ Get(call.result.steps[1].duration) > 1000

\* C18 for an actor whose vertical coordinate is 0.
C18_FromHeightZero == (Picked /\ call.robot.position.y = 0) => C18_PlanarDistance

Dropped == call.fn = "createDropPlan"

\* C19: createDropPlan returns exactly the three steps squat, drop, stand,
\* whether or not the actor holds an object.
C19_DropPlanShape ==
    Dropped => StepTypes(call.result) = <<"squat", "drop", "stand">>

\* A drop plan was made for an actor that holds nothing and stands at ground level.
C19_Witness ==
    /\ Dropped
    /\ call.robot.holdingObjectId = NULL
    /\ call.robot.position.y # 0
    /\ Len(call.result.steps) = 3

Constrained == call.fn = "constrainPose"

\* C20: the pose constrainPose returns has shoulder pitch, elbow flex, hip
\* pitch and knee flex within JOINT_LIMITS, elbow and knee flex not negative,
\* and the pose passed in is as it was before the call.
C20_ConstrainedWithinLimits ==
    Constrained =>
        /\ WithinLimits(call.result)
        /\ \A limb \in {call.result.leftArm, call.result.rightArm} : limb.elbow.flex >= 0
        /\ \A limb \in {call.result.leftLeg, call.result.rightLeg} : limb.knee.flex >= 0
        /\ robots[FirstRobot].pose = call.pose

\* A pose with a shoulder above its limit, a negative knee flex and a hip below
\* its limit was constrained, and the result differs from it.
C20_Witness ==
    /\ Constrained
    /\ call.pose.leftArm.shoulder.pitch = 200 * 100
    /\ call.pose.rightLeg.knee.flex = -5 * 100
    /\ call.pose.rightLeg.hip.pitch = -3024
    /\ call.result.rightLeg.hip.pitch = -30 * 100
    /\ call.result.rightLeg.knee.flex = 5 * 100
    /\ call.result.leftArm.shoulder.pitch = 180 * 100

Lerped == call.fn \in {"lerp", "lerpVec3", "lerpPose"}

\* C21: lerp, lerpVec3 and lerpPose return a at t = 0 and b at t = 1, in every
\* component, also when the torso or a roll is absent from one of the poses.
C21_IdentityAtBoundaries ==
    Lerped =>
        /\ call.t = 0 => call.result = call.a
        /\ call.t = Unit => call.result = call.b

\* lerpPose at t = 0 from a pose without a torso to a pose with one returned a
\* pose that has a torso.
C21_Counterexample ==
    /\ call.fn = "lerpPose"
    /\ call.t = 0
    /\ call.a.torso = None
    /\ IsSome(call.b.torso)
    /\ IsSome(call.result.torso)

\* A pose with its torso and the roll of every limb present.
FullyGiven(pose) ==
    /\ IsSome(pose.torso)
    /\ \A limb \in {pose.leftArm, pose.rightArm} : IsSome(limb.shoulder.roll)
    /\ \A limb \in {pose.leftLeg, pose.rightLeg} : IsSome(limb.hip.roll)

\* C21 for scalars, vectors and poses in which no optional component is absent.
C21_WhenNothingIsAbsent ==
    (Lerped /\ (call.fn = "lerpPose" => FullyGiven(call.a) /\ FullyGiven(call.b))) =>
        /\ call.t = 0 => call.result = call.a
        /\ call.t = Unit => call.result = call.b

\* The interval timer of the step execution e runs, if it runs one.
LiveInterval(e) == {t \in timers : t.kind = "interval" /\ t.e = e}

Actor(e) == robots[execs[e].robot.id]

\* C22: when an interpolated step starts, the value it interpolates from (the
\* pose for squat, reach, lift and stand, the position for navigate, the
\* heading for align) is the actor's value at that moment.
C22_StepsStartFromCurrentState ==
    [][\A e \in 1..Len(execs') :
          \A t \in {u \in timers' : /\ u.kind = "interval" /\ u.e = e
                                    /\ \A v \in timers : <<v.e, v.idx>> # <<u.e, u.idx>>} :
             LET type == execs'[e].plan.steps[t.idx].type
                 from == execs'[e].robot
                 now  == robots'[from.id]
             IN  /\ type \in {"squat", "reach", "lift", "stand"} => from.pose = now.pose
                 /\ type = "navigate" => from.position = now.position
                 /\ type = "align" => from.rotation = now.rotation]_vars

\* The squat step of a pick plan that runs alone has just started; the actor
\* is in the last walking pose of navigate, the step's start pose is another.
C22_Counterexample ==
    /\ Len(execs) = 1 /\ IsPickPlan(1)
    /\ \E t \in LiveInterval(1) :
          /\ Steps(1)[t.idx].type = "squat"
          /\ t.elapsed = 0
          /\ hist.ex[1].progress = 0
    /\ execs[1].robot.pose # Actor(1).pose

NonArm(pose) == [torso |-> pose.torso, leftLeg |-> pose.leftLeg, rightLeg |-> pose.rightLeg]

\* C23: while the reach step of a plan that runs alone is live, no tick changes
\* the actor's torso, hips or knees.
C23_ReachHoldsNonArmJoints ==
    [][\A t \in timers :
          (/\ Len(execs) = 1 /\ Len(execs') = 1
           /\ t.kind = "interval"
           /\ Steps(t.e)[t.idx].type = "reach")
          => NonArm(robots'[execs[t.e].robot.id].pose) = NonArm(Actor(t.e).pose)]_vars

\* The reach step of a pick plan that runs alone has ticked without
\* completing, and the actor's legs are not in the squat pose.
C23_Counterexample ==
    /\ Len(execs) = 1 /\ IsPickPlan(1)
    /\ \E t \in LiveInterval(1) : Steps(1)[t.idx].type = "reach"
    /\ hist.ex[1].progress > 0
    /\ Actor(1).pose.leftLeg # squat.leftLeg
    /\ Actor(1).pose.leftLeg.knee.flex = 0

\* C24: when a navigate step completes at full progress, the actor's position
\* is the step's target position in x, y and z.
C24_NavigateEndsAtTarget ==
    [][\A e \in Execs :
          \A k \in (Len(hist.ex[e].completed) + 1)..Len(hist'.ex[e].completed) :
             LET c == hist'.ex[e].completed[k]
                 step == Steps(e)[c[1]]
             IN  (step.type = "navigate" /\ c[2] = "full")
                 => robots'[execs[e].robot.id].position = Get(step.targetPosition)]_vars

\* The navigate step of a pick plan that runs alone has completed and align
\* has just started: the actor is at the target in x and z but not in y.
C24_Counterexample ==
    /\ Len(execs) = 1 /\ IsPickPlan(1)
    /\ Steps(1)[1].type = "navigate"
    /\ Len(hist.ex[1].completed) = 1
    /\ \E t \in LiveInterval(1) : Steps(1)[t.idx].type = "align" /\ t.elapsed = 0
    /\ Actor(1).position.x = Get(Steps(1)[1].targetPosition).x
    /\ Actor(1).position.z = Get(Steps(1)[1].targetPosition).z
    /\ Actor(1).position.y # Get(Steps(1)[1].targetPosition).y

Range(q) == {q[i] : i \in 1..Len(q)}

\* The steps execution e starts in the step from the current state to the next.
StartedNow(e) ==
    {hist'.ex[e].started[k] :
        k \in (IF e <= Len(execs) THEN Len(hist.ex[e].started) + 1 ELSE 1)
              ..Len(hist'.ex[e].started)}

\* The position in its plan of the only step of the given type, 0 if none.
IndexOf(steps, type) ==
    IF \E i \in 1..Len(steps) : steps[i].type = type
    THEN CHOOSE i \in 1..Len(steps) : steps[i].type = type
    ELSE 0

\* C25: a grasp step with an object id attaches the object to the actor in the
\* step in which it starts, and completes only when its duration has elapsed;
\* in a pick plan that runs alone the object is attached only after reach
\* has completed at full progress, and lift starts only with the object
\* attached.
C25_GraspAttachesAtStart ==
    [][/\ \A e \in 1..Len(execs') : \A idx \in StartedNow(e) :
             LET step == execs'[e].plan.steps[idx]
             IN  (step.type = "grasp" /\ IsSome(step.objectId)) =>
                    /\ Get(step.objectId) \in DOMAIN objects' =>
                          objects'[Get(step.objectId)].isPicked
                    /\ robots'[execs'[e].robot.id].holdingObjectId = Get(step.objectId)
                    /\ \A c \in Range(hist'.ex[e].completed) : c[1] # idx
                    /\ \E t \in timers' : t.kind = "timeout" /\ <<t.e, t.idx>> = <<e, idx>>
       /\ \A t \in timers :
             (t.kind = "timeout" /\ \E c \in Range(hist'.ex[t.e].completed) : c[1] = t.idx)
             => t.elapsed >= StepDuration(Steps(t.e)[t.idx])
       /\ (Len(execs') = 1 /\ execs'[1].plan.id[1] = "pick") =>
             LET target == execs'[1].plan.id[2]
                 reach == IndexOf(execs'[1].plan.steps, "reach")
                 lift == IndexOf(execs'[1].plan.steps, "lift")
             IN  /\ objects'[target].isPicked =>
                       <<reach, "full", Unit>> \in Range(hist'.ex[1].completed)
                 /\ lift \in Range(hist'.ex[1].started) =>
                       /\ objects'[target].isPicked
                       /\ robots'[execs'[1].robot.id].holdingObjectId = target]_vars

\* The lift step of a pick plan that runs alone is live and the object is
\* attached to the actor.
C25_Witness ==
    /\ Len(execs) = 1 /\ IsPickPlan(1)
    /\ \E t \in LiveInterval(1) : Steps(1)[t.idx].type = "lift"
    /\ objects[PickTarget(1)].isPicked
    /\ Actor(1).holdingObjectId = PickTarget(1)

C26_EmptyHandedDrop ==
    \E f \in Execs :
        /\ execs[f].plan = BareDropPlan
        /\ execs[f].robot.holdingObjectId = NULL
        /\ Finished(f)
        /\ Len(execs) = 1

\* The writers recorded for an actor's record.
Writers(rid) ==
    {Get(w) : w \in (hist.writes[rid].closed \cup {hist.writes[rid].last}) \ {None}}

\* Some execution starts a step of one of the given types, with the
\* parameter the step needs, in the step from the current state to the next.
StartsNow(types) ==
    \E e \in 1..Len(execs') : \E idx \in StartedNow(e) :
        LET step == execs'[e].plan.steps[idx]
        IN  step.type \in types /\ (step.type = "grasp" => IsSome(step.objectId))

\* C27: an object's isPicked flag or an actor's holdingObjectId changes only
\* in a step in which a grasp or drop starts, and an object's position only
\* where a drop starts: the ticks of navigate, align, squat, reach, lift and
\* stand leave the object list and every holdingObjectId as they are.
C27_OnlyGraspAndDropAttach ==
    [][/\ (\/ \E o \in DOMAIN objects : objects'[o].isPicked # objects[o].isPicked
           \/ \E r \in DOMAIN robots : robots'[r].holdingObjectId # robots[r].holdingObjectId)
          => StartsNow({"grasp", "drop"})
       /\ (\E o \in DOMAIN objects : objects'[o].position # objects[o].position)
          => StartsNow({"drop"})
       /\ (objects' # objects) => StartsNow({"grasp", "drop"})
       /\ \A w \in hist'.objWriters : execs'[w[1]].plan.steps[w[2]].type \in {"grasp", "drop"}]_vars

\* An actor that holds an object has been moved by ticks of two plans, one of
\* them the lift of its pick plan, the other a stand step; it still holds it.
C27_Witness ==
    /\ Len(execs) = 2
    /\ IsPickPlan(1) /\ Finished(1)
    /\ execs[2].robot.id = execs[1].robot.id
    /\ execs[2].plan = MalformedPlan /\ Finished(2)
    /\ {w[1] : w \in Writers(execs[1].robot.id)} = {1, 2}
    /\ Actor(1).holdingObjectId = PickTarget(1)
    /\ objects[PickTarget(1)].isPicked

\* C28: a tick, a timeout callback or a plan start of an execution for actor A
\* leaves the record of every other actor unchanged, a grasp leaves every
\* object but its own unchanged, and an actor's record is written only by
\* steps of plans executed for that actor.
C28_OtherActorsUntouched ==
    [][/\ \A t \in timers :
             (t.kind # "pause" /\ (TimeoutFire(t) \/ \E eager \in BOOLEAN : IntervalTick(t, eager)))
             => \A b \in DOMAIN robots \ {execs[t.e].robot.id} : robots'[b] = robots[b]
       /\ Len(execs') > Len(execs)
             => \A b \in DOMAIN robots \ {execs'[Len(execs')].robot.id} : robots'[b] = robots[b]
       /\ \A e \in 1..Len(execs') : \A idx \in StartedNow(e) :
             LET step == execs'[e].plan.steps[idx]
             IN  (step.type = "grasp" /\ IsSome(step.objectId)) =>
                    \A o \in DOMAIN objects \ {Get(step.objectId)} : objects'[o] = objects[o]
       /\ \A b \in DOMAIN robots :
             \A w \in (hist'.writes[b].closed \cup {hist'.writes[b].last}) \ {None} :
                execs'[Get(w)[1]].robot.id = b]_vars

\* The plans of two different actors are both under way, each has written its
\* own actor, and the two actors are in different places.
C28_Witness ==
    /\ Len(execs) = 2
    /\ execs[1].robot.id # execs[2].robot.id
    /\ LiveInterval(1) # {} /\ LiveInterval(2) # {}
    /\ \E w \in Writers(execs[1].robot.id) : w[1] = 1
    /\ \E w \in Writers(execs[2].robot.id) : w[1] = 2
    /\ Actor(1).position # Actor(2).position

\* The completions execution e records in the step from the current state to
\* the next.
CompletedNow(e) ==
    {hist'.ex[e].completed[k] :
        k \in (Len(hist.ex[e].completed) + 1)..Len(hist'.ex[e].completed)}

C30_ReachEndsAtReachDown ==
    [][\A e \in Execs : \A c \in CompletedNow(e) :
          (c[2] = "full" /\ Steps(e)[c[1]].type = "reach") =>
             LET now == robots'[execs[e].robot.id].pose
             IN  /\ now.leftArm.shoulder.pitch = reachDown.leftArm.shoulder.pitch
                 /\ now.rightArm.shoulder.pitch = reachDown.rightArm.shoulder.pitch
                 /\ now.leftArm.elbow.flex = reachDown.leftArm.elbow.flex
                 /\ now.rightArm.elbow.flex = reachDown.rightArm.elbow.flex]_vars

\* C30, refuted: a pick plan that runs alone has completed reach at progress 1
\* and grasp is pending; the shoulders are at reachDown's pitch and each elbow
\* is 0.85 of the way from its starting flex to reachDown's.
C30_Counterexample ==
    /\ Len(execs) = 1 /\ IsPickPlan(1)
    /\ <<IndexOf(Steps(1), "reach"), "full", Unit>> \in Range(hist.ex[1].completed)
    /\ \E t \in timers : t.kind = "timeout" /\ t.e = 1 /\ Steps(1)[t.idx].type = "grasp"
    /\ LET start == execs[1].robot.pose
           now == Actor(1).pose
       IN  /\ now.leftArm.shoulder.pitch = reachDown.leftArm.shoulder.pitch
           /\ now.rightArm.shoulder.pitch = reachDown.rightArm.shoulder.pitch
           /\ now.leftArm.elbow.flex = start.leftArm.elbow.flex
                 + Quot((reachDown.leftArm.elbow.flex - start.leftArm.elbow.flex) * 850, Unit)
           /\ now.rightArm.elbow.flex = start.rightArm.elbow.flex
                 + Quot((reachDown.rightArm.elbow.flex - start.rightArm.elbow.flex) * 850, Unit)
           /\ now.leftArm.elbow.flex # reachDown.leftArm.elbow.flex
           /\ now.rightArm.elbow.flex # reachDown.rightArm.elbow.flex

\* What holds of the reach step's end: both shoulders are at reachDown's pitch.
C30_ShouldersReachTarget ==
    [][\A e \in Execs : \A c \in CompletedNow(e) :
          (c[2] = "full" /\ Steps(e)[c[1]].type = "reach") =>
             LET now == robots'[execs[e].robot.id].pose
             IN  /\ now.leftArm.shoulder.pitch = reachDown.leftArm.shoulder.pitch
                 /\ now.rightArm.shoulder.pitch = reachDown.rightArm.shoulder.pitch]_vars

\* C31: the tracked set holds exactly the ids of the live interval timers;
\* a tracked id belongs to a step that has started and has not completed; when
\* every plan passed to the executor has completed, the set is empty and no
\* timer of the executor is pending.
C31_TrackedSetIsLiveIntervals ==
    /\ activeIntervals = {<<t.e, t.idx>> : t \in {u \in timers : u.kind = "interval"}}
    /\ \A a \in activeIntervals :
          /\ a[2] \in Range(hist.ex[a[1]].started)
          /\ \A c \in Range(hist.ex[a[1]].completed) : c[1] # a[2]
    /\ (\A e \in Execs : Finished(e)) =>
          /\ activeIntervals = {}
          /\ \A e \in Execs : StepTimers(e) = {}

\* Two plans have run to completion, one of them a pick plan with its five
\* interval steps, and nothing is tracked.
C31_Witness ==
    /\ Len(execs) = 2
    /\ \A e \in Execs : Finished(e)
    /\ \E e \in Execs : IsPickPlan(e) /\ Len(hist.ex[e].completed) = 6
    /\ activeIntervals = {}

\* A step's interval is live and tracked while an earlier plan has completed.
C31_TrackedWhileLive ==
    /\ Len(execs) = 2 /\ Finished(1)
    /\ \E t \in timers : t.kind = "interval" /\ t.e = 2 /\ activeIntervals = {<<2, t.idx>>}

\* C32: with planner-made plans executed one at a time for one actor under
\* the caller's preconditions, an object is flagged picked exactly when the
\* actor holds it, and at most one object is flagged.
C32_PickedIffHeld ==
    /\ \A o \in DOMAIN objects :
          objects[o].isPicked <=> (robots[FirstRobot].holdingObjectId = o)
    /\ Cardinality({o \in DOMAIN objects : objects[o].isPicked}) <= 1

\* The actor picked one object, dropped it, and now holds the other one.
C32_Witness ==
    /\ Len(execs) = 3
    /\ IsPickPlan(1) /\ IsDropPlan(2) /\ IsPickPlan(3)
    /\ PickTarget(1) # PickTarget(3)
    /\ robots[FirstRobot].holdingObjectId = PickTarget(3)
    /\ objects[PickTarget(3)].isPicked
    /\ ~objects[PickTarget(1)].isPicked

\* The torso pitch a lift step of execution e starts from, and the pitch the
\* actor has now.
LiftStartPitch(e) == OrElse(execs[e].robot.pose.torso, [pitch |-> 5500, roll |-> 0]).pitch
TorsoPitch(e) == Get(Actor(e).pose.torso).pitch

\* The lift step of a plan that runs alone has ticked and is at progress p.
LiftAt(e, p) ==
    /\ Len(execs) = 1 /\ e = 1
    /\ \E t \in LiveInterval(e) : Steps(e)[t.idx].type = "lift" /\ t.elapsed > 0
    /\ hist.ex[e].progress = p

\* C33: while a lift step's progress is below one half the torso pitch is the
\* pitch the step started from.
C33_TorsoHeldInFirstHalf ==
    \A p \in 1..499 : LiftAt(1, p) => TorsoPitch(1) = LiftStartPitch(1)

\* C33, refuted: a lift tick at progress one third (elapsed 200 of 600) has
\* already moved the torso off the pitch it started from.
C33_Counterexample ==
    \E p \in 1..499 :
        /\ LiftAt(1, p)
        /\ TorsoPitch(1) # LiftStartPitch(1)
        /\ TorsoPitch(1) = lerp(LiftStartPitch(1), holding(300).torso[1].pitch,
                                Quot((easeOut(p) - 400) * 10, 6))

\* C34: in the transition that completes a lift step the actor's torso pitch
\* is the holding lean for the size of the object it holds: -8 degrees when the
\* size exceeds 0.35, -3 degrees otherwise, and -3 (weight 0.3) when it holds
\* nothing.
C34_LeanBySizeOfHeldObject ==
    [][\A e \in Execs : \A c \in CompletedNow(e) :
          (c[2] = "full" /\ Steps(e)[c[1]].type = "lift") =>
             LET r == robots'[execs[e].robot.id]
                 held == r.holdingObjectId
             IN  Get(r.pose.torso).pitch =
                    IF held \in DOMAIN objects' /\ objects'[held].size > 350
                    THEN -800 ELSE -300]_vars

\* C34, refuted: the pick plan for the object of size 0.4 has completed, the
\* actor holds that object, and its torso is at the lean for weight 0.3.
C34_Counterexample ==
    /\ Len(execs) = 1 /\ IsPickPlan(1) /\ Finished(1)
    /\ <<IndexOf(Steps(1), "lift"), "full", Unit>> \in Range(hist.ex[1].completed)
    /\ Actor(1).holdingObjectId = PickTarget(1)
    /\ objects[PickTarget(1)].size > 350
    /\ Actor(1).pose.torso = holding(300).torso
    /\ holding(objects[PickTarget(1)].size).torso # holding(300).torso

\* The other outcome: the size was read in time and the lean is the larger one.
C34_LeanWhenSizeIsRead ==
    /\ Len(execs) = 1 /\ IsPickPlan(1) /\ Finished(1)
    /\ objects[PickTarget(1)].size > 350
    /\ Actor(1).pose.torso = Torso(-800, 0)

\* The blend parameter of a squat tick as the claim gives it, for progress p.
SquatBlend(p) == IF p < 300 THEN Quot(p * 10, 3) ELSE Quot((p - 300) * 10, 7)

\* C35: a squat tick at progress p commits the blend from the start pose to
\* squatPrep with parameter p / 0.3 while p < 0.3, and the blend from squatPrep
\* to squat with parameter (p - 0.3) / 0.7 from 0.3 on; the parameter lies in
\* [0, 1]; at p = 0.3 the pose is squatPrep; the height is the ground level
\* minus 0.4 times the eased progress.
C35_SquatBlendsInTwoPhases ==
    call.fn = "squat" =>
        LET p == Progress(call.elapsed, call.duration)
        IN  /\ SquatBlend(p) >= 0 /\ SquatBlend(p) <= Unit
            /\ p < 300 => call.result.pose = lerpPose(call.start, squatPrep, SquatBlend(p))
            /\ p >= 300 => call.result.pose = lerpPose(squatPrep, squat, SquatBlend(p))
            /\ p = 300 => call.result.pose = squatPrep
            /\ call.result.position.y = -350 - Quot(easeOutBack(p) * 400, Unit)

\* A tick at exactly 0.3 of the duration, from a pose other than squatPrep.
C35_Witness ==
    /\ call.fn = "squat"
    /\ Progress(call.elapsed, call.duration) = 300
    /\ call.start = DEFAULT_POSE
    /\ call.result.pose = squatPrep

\* A tick in the first phase and one in the second that overshoots the squat
\* depth (eased progress above 1).
C35_FirstPhase ==
    /\ call.fn = "squat" /\ Progress(call.elapsed, call.duration) = 150
    /\ call.result.pose = lerpPose(call.start, squatPrep, 500)

C35_Overshoot ==
    /\ call.fn = "squat" /\ Progress(call.elapsed, call.duration) < Unit
    /\ call.result.position.y < -750

\* The height the callback of a squat, lift or stand step assigns at progress 0.
HeightAtStart(r, robot, step) ==
    CASE step.type = "squat" -> SquatTick(r, robot, step, 0, StepDuration(step)).position.y
      [] step.type = "lift"  -> LiftTick(r, robot, step, 0, StepDuration(step), 300).position.y
      [] OTHER               -> StandTick(r, robot, step, 0, StepDuration(step)).position.y

\* C36: in a planner-made plan, when a squat, lift or stand step starts after
\* another step, the height it assigns at progress 0 is the actor's height at
\* that moment; and every pick or drop plan that completes leaves the actor at
\* the standing height -0.35.
C36_NoJumpInHeight ==
    [][/\ \A e \in 1..Len(execs') : \A idx \in StartedNow(e) :
             LET step == execs'[e].plan.steps[idx]
                 r == robots'[FirstRobot]
             IN  (idx > 1 /\ step.type \in {"squat", "lift", "stand"}) =>
                    HeightAtStart(r, execs'[e].robot, step) = r.position.y
       /\ \A e \in Execs :
             hist'.ex[e].callbacks > hist.ex[e].callbacks =>
                robots'[FirstRobot].position.y = -350]_vars

\* C36, refuted: a pick plan and then a drop plan have completed.  The squat of
\* the drop plan ended at -0.75, its stand assigns -0.8 at progress 0, and the
\* completed drop plan leaves the actor at -0.4 where the pick plan left it at
\* -0.35.
C36_Counterexample ==
    /\ Len(execs) = 2 /\ IsPickPlan(1) /\ IsDropPlan(2) /\ Finished(2)
    /\ execs[2].robot.position.y = -350
    /\ LET squatStep == Steps(2)[IndexOf(Steps(2), "squat")]
           standStep == Steps(2)[IndexOf(Steps(2), "stand")]
       IN  /\ SquatTick(Actor(2), execs[2].robot, squatStep, StepDuration(squatStep),
                        StepDuration(squatStep)).position.y = -750
           /\ HeightAtStart(Actor(2), execs[2].robot, standStep) = -800
    /\ Actor(2).position.y = -400

\* What holds within a pick plan that begins with a navigate step: squat
\* starts from the height navigate left, lift from the depth squat reached,
\* and the plan ends at the standing height.
C36_PickPlanHasNoJump ==
    [][/\ \A e \in 1..Len(execs') : \A idx \in StartedNow(e) :
             LET step == execs'[e].plan.steps[idx]
                 r == robots'[FirstRobot]
             IN  (/\ idx > 1 /\ step.type \in {"squat", "lift"}
                  /\ execs'[e].plan.steps[1].type = "navigate") =>
                    HeightAtStart(r, execs'[e].robot, step) = r.position.y
       /\ \A e \in Execs :
             (/\ IsPickPlan(e) /\ Steps(e)[1].type = "navigate"
              /\ hist'.ex[e].callbacks > hist.ex[e].callbacks) =>
                robots'[FirstRobot].position.y = -350]_vars

\* The value of [min, max] nearest to v, and the numbers that are finite.
Nearest(v, limit) == IF v < limit.min THEN limit.min ELSE IF v > limit.max THEN limit.max ELSE v
Finite(v) == v \notin {NaN, Infinity, -Infinity, JsonNull}

\* C37: constrainPose maps the finite value of every limited axis to the
\* nearest value of the axis' [min, max], and constraining the result again
\* changes nothing.
C37_ClampsToNearest ==
    Constrained =>
        /\ \A side \in {"leftArm", "rightArm"} :
              /\ Finite(call.pose[side].shoulder.pitch) =>
                    call.result[side].shoulder.pitch
                       = Nearest(call.pose[side].shoulder.pitch, JOINT_LIMITS.shoulder.pitch)
              /\ Finite(call.pose[side].elbow.flex) =>
                    call.result[side].elbow.flex
                       = Nearest(call.pose[side].elbow.flex, JOINT_LIMITS.elbow.flex)
        /\ \A side \in {"leftLeg", "rightLeg"} :
              /\ Finite(call.pose[side].hip.pitch) =>
                    call.result[side].hip.pitch
                       = Nearest(call.pose[side].hip.pitch, JOINT_LIMITS.hip.pitch)
              /\ Finite(call.pose[side].knee.flex) =>
                    call.result[side].knee.flex
                       = Nearest(call.pose[side].knee.flex, JOINT_LIMITS.knee.flex)
        /\ constrainPose(call.result) = call.result

\* C37, refuted: a knee flex of -5 degrees, below the minimum 0, comes back as
\* 5 degrees, and one of -141 degrees comes back as the maximum 140.
C37_Counterexample ==
    /\ Constrained
    /\ call.pose.rightLeg.knee.flex = -5 * 100
    /\ call.result.rightLeg.knee.flex = 5 * 100
    /\ call.pose.leftLeg.knee.flex = -141 * 100
    /\ call.result.leftLeg.knee.flex = JOINT_LIMITS.knee.flex.max
    /\ Nearest(-5 * 100, JOINT_LIMITS.knee.flex) = JOINT_LIMITS.knee.flex.min

\* What holds: pitches go to the nearest value of their range, a flex goes to
\* the nearest value of its range after its sign is dropped, and the function
\* is idempotent.
C37_ClampsMagnitudeOfFlex ==
    Constrained =>
        /\ \A side \in {"leftArm", "rightArm"} :
              /\ Finite(call.pose[side].shoulder.pitch) =>
                    call.result[side].shoulder.pitch
                       = Nearest(call.pose[side].shoulder.pitch, JOINT_LIMITS.shoulder.pitch)
              /\ Finite(call.pose[side].elbow.flex) =>
                    call.result[side].elbow.flex
                       = Nearest(Abs(call.pose[side].elbow.flex), JOINT_LIMITS.elbow.flex)
        /\ \A side \in {"leftLeg", "rightLeg"} :
              /\ Finite(call.pose[side].hip.pitch) =>
                    call.result[side].hip.pitch
                       = Nearest(call.pose[side].hip.pitch, JOINT_LIMITS.hip.pitch)
              /\ Finite(call.pose[side].knee.flex) =>
                    call.result[side].knee.flex
                       = Nearest(Abs(call.pose[side].knee.flex), JOINT_LIMITS.knee.flex)
        /\ constrainPose(call.result) = call.result

====
